---- MODULE Spec2Model ----
(***************************************************************************)
(* The tiered cache of seraphim (lib/cache-manager: class CacheManager):   *)
(* a fast tier (a Map kept in memory) backed by a durable tier             *)
(* (localStorage), with per-entry expiry.                                  *)
(*                                                                         *)
(* Strings whose characters the code inspects (cache keys, storage keys)   *)
(* are sequences of one-character strings, so that startsWith, replace     *)
(* and the template `seraphim_cache_${key}` are computed as the code       *)
(* computes them.                                                          *)
(***************************************************************************)
EXTENDS Integers, Sequences, FiniteSets, TLC

VARIABLES
    cache,   \* the fast tier: the Map's entries [key, item] in insertion order
    store,   \* the durable tier: localStorage, a function from its keys to texts
    now,     \* the wall clock read by Date.now()
    last,    \* the most recent operation, its arguments and what it returned
    loads,   \* the asynchronous loads of the pages: idle, in flight or done
    parser,  \* one run of parseMarkdownContent: its input lines and its locals
    search,  \* one call of searchModels: its arguments and what it returned
    naming,  \* one call of parseBrandName: its argument and what it returned
    home,    \* the home page: the state of the component and of its load
    brandPage \* the brand page: the state of the component and of its load

vars == <<cache, store, now, last, loads, parser, search, naming, home, brandPage>>

-----------------------------------------------------------------------------
(* Bounds of the model.                                                    *)

MaxClock == 2
MaxLoads == 2

-----------------------------------------------------------------------------
(* Strings.                                                                *)

KEY_PREFIX == <<"s","e","r","a","p","h","i","m","_","c","a","c","h","e","_">>
BRAND_PREFIX == <<"b","r","a","n","d","_">>
STORAGE_BRAND_PREFIX == KEY_PREFIX \o BRAND_PREFIX

\* String.prototype.startsWith
StartsWith(s, p) ==
    /\ Len(s) >= Len(p)
    /\ SubSeq(s, 1, Len(p)) = p

\* String.prototype.indexOf, 1-based; 0 when p does not occur in s
IndexOf(s, p) ==
    LET hits == {i \in 1..(Len(s) - Len(p) + 1) : SubSeq(s, i, i + Len(p) - 1) = p}
    IN  IF hits = {} THEN 0 ELSE CHOOSE i \in hits : \A j \in hits : i <= j

\* String.prototype.replace with a string pattern: the first occurrence only
Replace(s, p, r) ==
    LET i == IndexOf(s, p)
    IN  IF i = 0 THEN s
        ELSE SubSeq(s, 1, i - 1) \o r \o SubSeq(s, i + Len(p), Len(s))

\* The template literal `seraphim_cache_${key}`
StorageKey(k) == KEY_PREFIX \o k

-----------------------------------------------------------------------------
(* The keys, payloads and arguments the operations are called with.        *)

BrandA == BRAND_PREFIX \o <<"a">>
BrandB == BRAND_PREFIX \o <<"b">>
AllBrandsMetadata ==
    <<"a","l","l","_","b","r","a","n","d","s","_","m","e","t","a","d","a","t","a">>

AllModelsGlobalData ==
    <<"a","l","l","_","m","o","d","e","l","s","_","g","l","o","b","a","l","_","d","a","t","a">>

\* `brand_${slug}` of two brands, and the key of the directory listing
Keys == {BrandA, BrandB, AllBrandsMetadata}
BrandKeys == {BrandA, BrandB}

\* A localStorage key of the same origin that is not the cache's
ThemeKey == <<"t","h","e","m","e">>
ThemeText == <<"dark">>

\* JavaScript's null, returned by get and getForSearch for an absent entry
Null == "null"

\* Payloads: a JSON value and NaN, which JSON.stringify writes as null
Payloads == {"A", "NaN"}

\* The optional argument customExpiry: <<>> when omitted, <<n>> when given
TtlArgs == {<<>>, <<1>>}

DEFAULT_EXPIRY == 86400000

-----------------------------------------------------------------------------
(* JSON.stringify and JSON.parse of a CacheItem.  The text is kept as the  *)
(* triple of its members' JSON values.                                     *)

JSONstringify(item) ==
    << IF item.data = "NaN" THEN "null" ELSE item.data,
       item.timestamp,
       item.expiry >>

JSONparse(text) ==
    [data |-> text[1], timestamp |-> text[2], expiry |-> text[3]]

-----------------------------------------------------------------------------
(* The fast tier: a Map<string, CacheItem>, which iterates in insertion    *)
(* order.                                                                  *)

CacheKeys(c) == {c[i].key : i \in 1..Len(c)}

CacheHas(c, k) == k \in CacheKeys(c)

\* Map.prototype.get; only used where CacheHas(c, k)
CacheGet(c, k) == c[CHOOSE i \in 1..Len(c) : c[i].key = k].item

\* A Map.set that keeps the entry a key already has
MapSet_KeepExisting(c, k, item) ==
    IF k \in {c[i].key : i \in 1..Len(c)} THEN c
    ELSE Append(c, [key |-> k, item |-> item])

\* Map.prototype.set: the entry of an existing key keeps its place
MapSet(c, k, item) ==
    IF CacheHas(c, k)
    THEN [i \in 1..Len(c) |-> IF c[i].key = k THEN [key |-> k, item |-> item] ELSE c[i]]
    ELSE Append(c, [key |-> k, item |-> item])

\* Map.prototype.delete
MapDelete(c, k) == SelectSeq(c, LAMBDA e : e.key # k)

-----------------------------------------------------------------------------
(* The durable tier: localStorage.                                         *)

\* A setItem that first drops the cache's other texts to make room
SetItem_Evicting(s, sk, text) ==
    [x \in {y \in DOMAIN s : ~StartsWith(y, KEY_PREFIX)} \cup {sk} |->
        IF x = sk THEN text ELSE s[x]]

\* localStorage.setItem
SetItem(s, sk, text) ==
    [x \in (DOMAIN s) \cup {sk} |-> IF x = sk THEN text ELSE s[x]]

\* localStorage.removeItem
RemoveItem(s, sk) == [x \in (DOMAIN s) \ {sk} |-> s[x]]

RemoveItems(s, sks) == [x \in (DOMAIN s) \ sks |-> s[x]]

\* Object.keys(localStorage) in some order: the orders it may come in
Orders(S) ==
    {q \in [1..Cardinality(S) -> S] : \A i, j \in 1..Cardinality(S) : q[i] = q[j] => i = j}

-----------------------------------------------------------------------------
(* CacheManager's methods as functions of the state they read: each gives  *)
(* the tiers it leaves, what it returns and whether it raised.  `fails` is  *)
(* the set of localStorage calls that throw during the call (quota         *)
(* exceeded, storage disabled).                                            *)

DurableCalls == {"setItem", "getItem", "removeItem", "keys"}

\* Placeholder where a lookup found nothing
NoItem == [data |-> Null, timestamp |-> 0, expiry |-> 0]

\* set with localStorage.setItem outside any try block
SetTry_Unguarded == {}

\* The localStorage calls that lie inside a try block whose catch only logs
SetTry == {"setItem"}
LookupTry == {"getItem"}
DeleteTry == {"removeItem"}
ClearTry == {"keys", "removeItem"}
BrandsTry == {"keys"}

\* const expiry = customExpiry || this.DEFAULT_EXPIRY
ExpiryOf(ttlArg) ==
    IF ttlArg # <<>> /\ ttlArg[1] # 0 THEN ttlArg[1] ELSE DEFAULT_EXPIRY

\* The item set builds from two reads of the clock, t1 and then t2
NewItem(data, ttlArg, t1, t2) ==
    [data |-> data, timestamp |-> t1, expiry |-> t2 + ExpiryOf(ttlArg)]

\* set writing the fast tier inside the try block, after setItem
SetEffect_FastAfterDurable(c, s, k, data, ttlArg, t1, t2, fails) ==
    LET item == [data |-> data, timestamp |-> t1,
                 expiry |-> t2 + (IF ttlArg # <<>> /\ ttlArg[1] # 0
                                  THEN ttlArg[1] ELSE DEFAULT_EXPIRY)]
    IN  [cache |-> IF "setItem" \in fails THEN c ELSE MapSet(c, k, item),
         store |-> IF "setItem" \in fails
                   THEN s
                   ELSE SetItem(s, StorageKey(k), JSONstringify(item)),
         item  |-> item,
         threw |-> FALSE]

\* set(key, data, customExpiry)
SetEffect(c, s, k, data, ttlArg, t1, t2, fails) ==
    LET item == NewItem(data, ttlArg, t1, t2)
    IN  [cache |-> MapSet(c, k, item),
         store |-> IF "setItem" \in fails
                   THEN s
                   ELSE SetItem(s, StorageKey(k), JSONstringify(item)),
         item  |-> item,
         threw |-> "setItem" \in fails \ SetTry]

\* The lookup of get returning the durable entry without copying it
Lookup_NoRestore(c, s, k, fails) ==
    IF CacheHas(c, k)
    THEN [found |-> TRUE, item |-> CacheGet(c, k), cache |-> c, threw |-> FALSE]
    ELSE IF "getItem" \notin fails /\ StorageKey(k) \in DOMAIN s
    THEN [found |-> TRUE, item |-> JSONparse(s[StorageKey(k)]), cache |-> c,
          threw |-> FALSE]
    ELSE [found |-> FALSE, item |-> NoItem, cache |-> c, threw |-> FALSE]

\* The lookup of get consulting the durable tier first
Lookup_DurableFirst(c, s, k, fails) ==
    IF "getItem" \notin fails /\ StorageKey(k) \in DOMAIN s
    THEN LET item == JSONparse(s[StorageKey(k)])
         IN  [found |-> TRUE, item |-> item, cache |-> MapSet(c, k, item),
              threw |-> FALSE]
    ELSE IF CacheHas(c, k)
    THEN [found |-> TRUE, item |-> CacheGet(c, k), cache |-> c, threw |-> FALSE]
    ELSE [found |-> FALSE, item |-> NoItem, cache |-> c, threw |-> FALSE]

\* The lookup of get: the fast tier, else the durable tier, whose entry is
\* copied into the fast tier
Lookup(c, s, k, fails) ==
    IF CacheHas(c, k)
    THEN [found |-> TRUE, item |-> CacheGet(c, k), cache |-> c, threw |-> FALSE]
    ELSE IF "getItem" \in fails
    THEN [found |-> FALSE, item |-> NoItem, cache |-> c,
          threw |-> "getItem" \notin LookupTry]
    ELSE IF StorageKey(k) \in DOMAIN s
    THEN LET item == JSONparse(s[StorageKey(k)])
         IN  [found |-> TRUE, item |-> item, cache |-> MapSet(c, k, item),
              threw |-> FALSE]
    ELSE [found |-> FALSE, item |-> NoItem, cache |-> c, threw |-> FALSE]

\* delete without the removal from the Map
DeleteEffect_DurableOnly(c, s, k, fails) ==
    [cache |-> c,
     store |-> IF "removeItem" \in fails THEN s ELSE RemoveItem(s, StorageKey(k)),
     threw |-> "removeItem" \in fails \ DeleteTry]

\* delete without the localStorage.removeItem
DeleteEffect_FastOnly(c, s, k, fails) ==
    [cache |-> MapDelete(c, k), store |-> s, threw |-> FALSE]

\* delete(key)
DeleteEffect(c, s, k, fails) ==
    [cache |-> MapDelete(c, k),
     store |-> IF "removeItem" \in fails THEN s ELSE RemoveItem(s, StorageKey(k)),
     threw |-> "removeItem" \in fails \ DeleteTry]

\* get testing the expiry with < in place of >
GetEffect_ExpiryReversed(c, s, k, t, fails) ==
    LET l == Lookup(c, s, k, fails)
    IN  IF ~l.found
        THEN [cache |-> l.cache, store |-> s, ret |-> Null, threw |-> l.threw]
        ELSE IF t < l.item.expiry
        THEN LET d == DeleteEffect(l.cache, s, k, fails)
             IN  [cache |-> d.cache, store |-> d.store, ret |-> Null,
                  threw |-> d.threw]
        ELSE [cache |-> l.cache, store |-> s, ret |-> l.item.data, threw |-> FALSE]

\* get reporting an expired entry absent without the call of delete
GetEffect_KeepExpired(c, s, k, t, fails) ==
    LET l == Lookup(c, s, k, fails)
    IN  IF ~l.found
        THEN [cache |-> l.cache, store |-> s, ret |-> Null, threw |-> l.threw]
        ELSE IF t > l.item.expiry
        THEN [cache |-> l.cache, store |-> s, ret |-> Null, threw |-> FALSE]
        ELSE [cache |-> l.cache, store |-> s, ret |-> l.item.data, threw |-> FALSE]

\* get(key) at clock t
GetEffect(c, s, k, t, fails) ==
    LET l == Lookup(c, s, k, fails)
    IN  IF ~l.found
        THEN [cache |-> l.cache, store |-> s, ret |-> Null, threw |-> l.threw]
        ELSE IF t > l.item.expiry
        THEN LET d == DeleteEffect(l.cache, s, k, fails)
             IN  [cache |-> d.cache, store |-> d.store, ret |-> Null,
                  threw |-> d.threw]
        ELSE [cache |-> l.cache, store |-> s, ret |-> l.item.data, threw |-> FALSE]

\* getForSearch returning the durable entry without copying it
GetForSearchEffect_NoRestore(c, s, k, fails) ==
    IF CacheHas(c, k)
    THEN [cache |-> c, store |-> s, ret |-> CacheGet(c, k).data, threw |-> FALSE]
    ELSE IF "getItem" \in fails
    THEN [cache |-> c, store |-> s, ret |-> Null,
          threw |-> "getItem" \notin LookupTry]
    ELSE IF StorageKey(k) \in DOMAIN s
    THEN [cache |-> c, store |-> s, ret |-> JSONparse(s[StorageKey(k)]).data,
          threw |-> FALSE]
    ELSE [cache |-> c, store |-> s, ret |-> Null, threw |-> FALSE]

\* getForSearch(key): its own copy of the lookup, and no test of the expiry
GetForSearchEffect(c, s, k, fails) ==
    IF CacheHas(c, k)
    THEN [cache |-> c, store |-> s, ret |-> CacheGet(c, k).data, threw |-> FALSE]
    ELSE IF "getItem" \in fails
    THEN [cache |-> c, store |-> s, ret |-> Null,
          threw |-> "getItem" \notin LookupTry]
    ELSE IF StorageKey(k) \in DOMAIN s
    THEN LET item == JSONparse(s[StorageKey(k)])
         IN  [cache |-> MapSet(c, k, item), store |-> s, ret |-> item.data,
              threw |-> FALSE]
    ELSE [cache |-> c, store |-> s, ret |-> Null, threw |-> FALSE]

\* clear without the test of the prefix
CachePrefixed_All(S) == S

\* The storage keys clear removes
CachePrefixed(S) == {x \in S : StartsWith(x, KEY_PREFIX)}

\* clear(): Object.keys gave the keys in order q; with a failing removeItem
\* the removeItem call on q[at] throws and ends the loop
ClearEffect(c, s, q, at, fails) ==
    [cache |-> <<>>,
     store |-> IF "keys" \in fails
               THEN s
               ELSE IF "removeItem" \in fails
               THEN RemoveItems(s, CachePrefixed({q[i] : i \in 1..(at - 1)}))
               ELSE RemoveItems(s, CachePrefixed(DOMAIN s)),
     threw |-> \/ "keys" \in fails \ ClearTry
               \/ /\ "keys" \notin fails
                  /\ "removeItem" \in fails \ ClearTry]

\* getCacheInfo evicting an expired entry as get does
GetCacheInfoEffect_Evicting(c, s, k, t) ==
    IF CacheHas(c, k) /\ t > CacheGet(c, k).expiry
    THEN [cache |-> MapDelete(c, k),
          store |-> RemoveItem(s, StorageKey(k)),
          info  |-> [exists |-> FALSE, age |-> 0, expiresIn |-> 0]]
    ELSE [cache |-> c,
          store |-> s,
          info  |-> IF ~CacheHas(c, k)
                    THEN [exists |-> FALSE, age |-> 0, expiresIn |-> 0]
                    ELSE [exists |-> TRUE,
                          age |-> t - CacheGet(c, k).timestamp,
                          expiresIn |-> CacheGet(c, k).expiry - t]]

\* getCacheInfo falling back to the durable tier as get does
GetCacheInfoEffect_Durable(c, s, k, t) ==
    LET l == Lookup(c, s, k, {})
    IN  [cache |-> c,
         store |-> s,
         info  |-> IF ~l.found
                   THEN [exists |-> FALSE, age |-> 0, expiresIn |-> 0]
                   ELSE [exists |-> TRUE,
                         age |-> t - l.item.timestamp,
                         expiresIn |-> l.item.expiry - t]]

\* getCacheInfo(key) at clock t: it reads the fast tier only
GetCacheInfoEffect(c, s, k, t) ==
    [cache |-> c,
     store |-> s,
     info  |-> IF ~CacheHas(c, k)
               THEN [exists |-> FALSE, age |-> 0, expiresIn |-> 0]
               ELSE [exists |-> TRUE,
                     age |-> t - CacheGet(c, k).timestamp,
                     expiresIn |-> CacheGet(c, k).expiry - t]]

\* Array.prototype.includes
Includes(a, x) == \E i \in 1..Len(a) : a[i] = x

\* getCachedBrands(), first loop: the fast tier's keys in the Map's order
RECURSIVE FastBrands(_)
FastBrands(c) ==
    IF c = <<>> THEN <<>>
    ELSE (IF StartsWith(Head(c).key, BRAND_PREFIX)
          THEN <<Replace(Head(c).key, BRAND_PREFIX, <<>>)>>
          ELSE <<>>) \o FastBrands(Tail(c))

\* The second loop without the test brands.includes(brandKey)
RECURSIVE DurableBrands_NoIncludes(_, _)
DurableBrands_NoIncludes(brands, q) ==
    IF q = <<>> THEN brands
    ELSE DurableBrands_NoIncludes(
             IF StartsWith(Head(q), STORAGE_BRAND_PREFIX)
             THEN Append(brands, Replace(Head(q), STORAGE_BRAND_PREFIX, <<>>))
             ELSE brands,
             Tail(q))

\* getCachedBrands(), second loop: the storage keys in the order q
RECURSIVE DurableBrands(_, _)
DurableBrands(brands, q) ==
    IF q = <<>> THEN brands
    ELSE LET brandKey == Replace(Head(q), STORAGE_BRAND_PREFIX, <<>>)
         IN  DurableBrands(
                 IF StartsWith(Head(q), STORAGE_BRAND_PREFIX) /\ ~Includes(brands, brandKey)
                 THEN Append(brands, brandKey)
                 ELSE brands,
                 Tail(q))

GetCachedBrandsEffect(c, q, fails) ==
    [ret   |-> IF "keys" \in fails THEN FastBrands(c) ELSE DurableBrands(FastBrands(c), q),
     threw |-> "keys" \in fails \ BrandsTry]

-----------------------------------------------------------------------------
(* The data parser (lib/data-parser): the string methods and the regular   *)
(* expressions that parseMarkdownContent applies to a line, computed on    *)
(* sequences of one-character strings.                                     *)

\* The value of an optional field that was never assigned (undefined): a
\* sequence that no text equals, as every element of a text stands for one character
Undefined == <<"undefined">>

\* The character U+0060 (the grave accent that fences a model number), which
\* a string of this language cannot hold: the one element of a text that is
\* written with a name
GRAVE == "grave"

\* The characters \s matches and trim removes, of those the inputs contain
IsSpace(c) == c \in {" ", "\t"}

\* The value of a const of the code: the element of the set of that one
\* value, so that what is computed from it starts from the value
Const(S) == CHOOSE value \in S : TRUE

\* What \s* consumes from index `from` on: the index of the first character
\* after the run of white space (Len(s) + 1 when the run reaches the end)
PastSpaces(s, from) ==
    CHOOSE i \in from..(Len(s) + 1) :
        /\ i = Len(s) + 1 \/ ~IsSpace(s[i])
        /\ \A k \in from..(i - 1) : IsSpace(s[k])

\* The index of the last character that is not white space, 0 when none
LastInk(s) ==
    CHOOSE i \in 0..Len(s) :
        /\ i = 0 \/ ~IsSpace(s[i])
        /\ \A k \in (i + 1)..Len(s) : IsSpace(s[k])

\* String.prototype.trim
Trim(s) == SubSeq(s, PastSpaces(s, 1), LastInk(s))

\* String.prototype.endsWith
EndsWith(s, p) ==
    /\ Len(s) >= Len(p)
    /\ SubSeq(s, Len(s) - Len(p) + 1, Len(s)) = p

\* String.prototype.slice(from, to) with from >= 0 and to < 0
Slice(s, from, to) ==
    LET end == IF Len(s) + to < 0 THEN 0 ELSE Len(s) + to
    IN  IF end <= from THEN <<>> ELSE SubSeq(s, from + 1, end)

\* String.prototype.split("\n"): the pieces between the line feeds
Split(s) ==
    LET cuts == {0, Len(s) + 1} \cup {i \in 1..Len(s) : s[i] = "\n"}
        Cut(k) == CHOOSE c \in cuts : Cardinality({d \in cuts : d < c}) = k
    IN  [k \in 1..(Cardinality(cuts) - 1) |-> SubSeq(s, Cut(k - 1) + 1, Cut(k) - 1)]

\* The least index from `from` on whose character is in chars; 0 when none
IndexIn(s, chars, from) ==
    CHOOSE i \in {0} \cup (from..Len(s)) :
        /\ i = 0 \/ s[i] \in chars
        /\ \A k \in from..(IF i = 0 THEN Len(s) ELSE i - 1) : s[k] \notin chars

NoMatch == [matched |-> FALSE, g1 |-> <<>>, g2 |-> <<>>]

\* modelLine.match(/^\[([^\]]+)\]\s*(.*)/): "[", one or more characters
\* other than "]", "]", white space, and the rest of the line
CodenameBracketMatch_WithBrackets(s) ==
    LET close == IndexIn(s, {"]"}, 2)
    IN  IF Len(s) >= 1 /\ s[1] = "[" /\ close >= 3
        THEN [matched |-> TRUE,
              g1 |-> SubSeq(s, 1, close),
              g2 |-> SubSeq(s, PastSpaces(s, close + 1), Len(s))]
        ELSE NoMatch

CodenameBracketMatch(s) ==
    LET close == IndexIn(s, {"]"}, 2)
    IN  IF Len(s) >= 1 /\ s[1] = "[" /\ close >= 3
        THEN [matched |-> TRUE,
              g1 |-> SubSeq(s, 2, close - 1),
              g2 |-> SubSeq(s, PastSpaces(s, close + 1), Len(s))]
        ELSE NoMatch

\* modelLine.match(/^$$([^)]+)$$\s*(.*)/): the pattern is "^", two "$"
\* assertions, then a group of one or more characters other than ")".
\* Without the m flag "$" holds at the end of the input only, so the
\* assertions hold when the line is empty, and the group then needs a
\* character that an empty line does not have
CodenameParenMatch(s) ==
    LET atEnd == Len(s) = 0
        close == IndexIn(s, {")"}, 1)
        group == IF close = 0 THEN s ELSE SubSeq(s, 1, close - 1)
    IN  IF atEnd /\ Len(group) >= 1
        THEN [matched |-> TRUE, g1 |-> group, g2 |-> <<>>]
        ELSE NoMatch

\* One attempt of /\s*[[$$][^\]$$]*[\])]\s*/ at index p: white space, one
\* of "[" and "$", the longest run of characters other than "]" and "$"
\* that is followed by one of "]" and ")", and white space.  The result is
\* the index after the match, 0 when the pattern does not match at p
GroupMatchEnd(s, p) ==
    LET open == PastSpaces(s, p)
        stop == IndexIn(s, {"]", "$"}, open + 1)
        runEnd == IF stop = 0 THEN Len(s) + 1 ELSE stop
        parens == {t \in (open + 1)..(runEnd - 1) : s[t] = ")"}
        term == IF open > Len(s) \/ s[open] \notin {"[", "$"} THEN 0
                ELSE IF stop # 0 /\ s[stop] = "]" THEN stop
                ELSE IF parens # {} THEN CHOOSE t \in parens : \A u \in parens : t >= u
                ELSE 0
    IN  IF term = 0 THEN 0 ELSE PastSpaces(s, term + 1)

\* mainModelName.replace(/\s*[[$$][^\]$$]*[\])]\s*/g, ""): every match,
\* found from left to right, is removed.  rest[p] is what is kept of the
\* text from index p on
StripGroups(s) ==
    LET rest[p \in 1..(Len(s) + 1)] ==
            IF p > Len(s) THEN <<>>
            ELSE IF GroupMatchEnd(s, p) = 0 THEN <<s[p]>> \o rest[p + 1]
            ELSE rest[GroupMatchEnd(s, p)]
    IN  rest[1]

\* variantLine.match of the pattern: a backtick, one or more characters
\* other than a backtick, a backtick, ":", white space, and the rest
VariantMatch(s) ==
    LET close == IndexIn(s, {GRAVE}, 2)
    IN  IF /\ Len(s) >= 1 /\ s[1] = GRAVE /\ close >= 3
           /\ close + 1 <= Len(s) /\ s[close + 1] = ":"
        THEN [matched |-> TRUE,
              g1 |-> SubSeq(s, 2, close - 1),
              g2 |-> SubSeq(s, PastSpaces(s, close + 2), Len(s))]
        ELSE NoMatch

SECTION_MARK == <<"#", "#", " ">>
BOLD_MARK == <<"*", "*">>
HEADING_END == <<":", "*", "*">>

\* line.startsWith("## ")
IsSectionHeading(line) == StartsWith(line, SECTION_MARK)

\* currentSeries = line.replace("## ", "").trim()
SectionName_KeepMark(line) == Const({Trim(name) : name \in {line}})

SectionName(line) == Const({Trim(name) : name \in {Replace(line, SECTION_MARK, <<>>)}})

\* line.startsWith("**") && line.endsWith(":**")
IsModelHeading(line) == StartsWith(line, BOLD_MARK) /\ EndsWith(line, HEADING_END)

\* The scan ended by section headings and model headings only
StopsScan_HeadingsOnly(variantLine) ==
    IsSectionHeading(variantLine) \/ IsModelHeading(variantLine)

\* The test that ends the scan of a model's variant lines
StopsScan(variantLine) ==
    \/ StartsWith(variantLine, BOLD_MARK)
    \/ StartsWith(variantLine, <<"#", "#">>)
    \/ StartsWith(variantLine, <<"#">>)

\* mainModelName after mainModelName.replace(...).trim()
CleanName(mainModelName) ==
    Const({Trim(stripped) : stripped \in {StripGroups(mainModelName)}})

\* The names assigned from the two matches of a heading body
NamesFrom(modelLine, codenameBracketMatch, codenameParenMatch) ==
    LET codename == IF codenameBracketMatch.matched THEN codenameBracketMatch.g1
                    ELSE IF codenameParenMatch.matched THEN codenameParenMatch.g1
                    ELSE Undefined
        rest == IF codenameBracketMatch.matched THEN Trim(codenameBracketMatch.g2)
                ELSE IF codenameParenMatch.matched THEN Trim(codenameParenMatch.g2)
                ELSE modelLine
    IN  [mainModelName |-> Const({CleanName(name) : name \in {rest}}),
         codename |-> codename]

\* The codename and the name that a model heading line carries
ParseHeading(line) ==
    LET Names(modelLine) ==
            Const({NamesFrom(modelLine, bracket, paren) :
                      bracket \in {CodenameBracketMatch(modelLine)},
                      paren \in {CodenameParenMatch(modelLine)}})
    IN  Const({Names(modelLine) : modelLine \in {Slice(line, 2, -3)}})

\* The variant that a line matching the variant pattern carries
ParseVariant(variantLine) ==
    Const({[modelNumber |-> variantMatch.g1, variantName |-> Trim(variantMatch.g2)] :
              variantMatch \in {VariantMatch(variantLine)}})

-----------------------------------------------------------------------------
(* parseMarkdownContent, one step per iteration of its two loops.  The     *)
(* record p holds the locals of one run: the lines, the indices i and j,   *)
(* the models returned so far, currentSeries, and, while the variant       *)
(* lines of a model are scanned, the model's names and its variants.       *)
(* heads, vat and vlines remember the index of the line that each model    *)
(* and each variant came from; nothing in the run depends on them.         *)

NoOpen == [mainModelName |-> <<>>, codename |-> Undefined]

NoParse ==
    [lines |-> <<>>, i |-> 0, j |-> 0, pc |-> "idle", models |-> <<>>,
     currentSeries |-> Undefined, open |-> NoOpen, variants |-> <<>>,
     heads |-> <<>>, vat |-> <<>>, vlines |-> <<>>]

\* const lines = content.split("\n"); const models = []; let currentSeries
StartParse(content) ==
    [NoParse EXCEPT !.lines = Split(content), !.pc = "outer"]

\* lines[k].trim(), k counted from 0 as the code counts it
LineAt(p, k) == Const({Trim(text) : text \in {p.lines[k + 1]}})

\* if (variants.length > 0) models.push({ mainModelName, codename, variants, series })
PushModel_Always(models, open, variants, series) ==
    Append(models, [mainModelName |-> open.mainModelName, codename |-> open.codename,
                    variants |-> variants, series |-> series])

PushModel(models, open, variants, series) ==
    IF Len(variants) > 0
    THEN Append(models, [mainModelName |-> open.mainModelName,
                         codename |-> open.codename,
                         variants |-> variants, series |-> series])
    ELSE models

\* variants.push({ modelNumber, variantName })
PushVariant_Front(variants, variant) == <<variant>> \o variants

PushVariant(variants, variant) == Append(variants, variant)

\* i = j - 1: the index the outer loop is set back to when the scan ends
Resume_Past(j) == j

Resume(j) == j - 1

\* The outer loop at a section heading: remember the series, next line
SectionStep(p) ==
    [p EXCEPT !.currentSeries = SectionName(LineAt(p, p.i)), !.i = p.i + 1]

\* The outer loop at a model heading: take the names, start the scan at i + 1
HeadingStep(p) ==
    [p EXCEPT !.open = ParseHeading(LineAt(p, p.i)), !.variants = <<>>,
              !.vat = <<>>, !.j = p.i + 1, !.pc = "inner"]

\* The outer loop at any other line: next line
OtherStep(p) == [p EXCEPT !.i = p.i + 1]

\* The scan at a line matching the variant pattern: push it, j++
VariantStep(p) ==
    [p EXCEPT !.variants = PushVariant(p.variants, ParseVariant(LineAt(p, p.j))),
              !.vat = PushVariant(p.vat, p.j), !.j = p.j + 1]

\* The scan at a line that neither stops it nor matches: j++
SkipStep(p) == [p EXCEPT !.j = p.j + 1]

\* The scan ends (break, or j reached lines.length): push the model when it
\* has variants, set i back, and let the outer loop's i++ run
EndScanStep(p) ==
    LET pushed == PushModel(p.models, p.open, p.variants, p.currentSeries)
        added == Len(pushed) > Len(p.models)
    IN  [p EXCEPT !.models = pushed,
                  !.heads = IF added THEN Append(p.heads, p.i) ELSE p.heads,
                  !.vlines = IF added THEN Append(p.vlines, p.vat) ELSE p.vlines,
                  !.i = Resume(p.j) + 1, !.j = 0, !.pc = "outer",
                  !.open = NoOpen, !.variants = <<>>, !.vat = <<>>]

\* The outer loop's test fails: return models
ReturnStep(p) == [p EXCEPT !.pc = "done"]

\* Which step the run takes next
StepKind(p) ==
    IF p.pc = "outer"
    THEN IF p.i >= Len(p.lines) THEN "return"
         ELSE IF IsSectionHeading(LineAt(p, p.i)) THEN "section"
         ELSE IF IsModelHeading(LineAt(p, p.i)) THEN "heading"
         ELSE "other"
    ELSE IF p.pc = "inner"
    THEN IF p.j >= Len(p.lines) \/ StopsScan(LineAt(p, p.j)) THEN "endscan"
         ELSE IF VariantMatch(LineAt(p, p.j)).matched THEN "variant"
         ELSE "skip"
    ELSE "none"

ParseStep(p) ==
    CASE StepKind(p) = "return" -> ReturnStep(p)
      [] StepKind(p) = "section" -> SectionStep(p)
      [] StepKind(p) = "heading" -> HeadingStep(p)
      [] StepKind(p) = "other" -> OtherStep(p)
      [] StepKind(p) = "endscan" -> EndScanStep(p)
      [] StepKind(p) = "variant" -> VariantStep(p)
      [] StepKind(p) = "skip" -> SkipStep(p)
      [] OTHER -> p

\* The whole run: the steps up to the return
RECURSIVE RunParse(_)
RunParse(p) == IF StepKind(p) = "none" THEN p ELSE RunParse(ParseStep(p))

parseMarkdownContent(content) == RunParse(StartParse(content)).models

-----------------------------------------------------------------------------
(* searchModels.                                                           *)

UPPER == <<"A","B","C","D","E","F","G","H","I","J","K","L","M","N","O","P","Q","R","S","T","U","V","W","X","Y","Z">>
LOWER == <<"a","b","c","d","e","f","g","h","i","j","k","l","m","n","o","p","q","r","s","t","u","v","w","x","y","z">>

\* String.prototype.toLowerCase, on the letters A to Z
ToLowerCase(s) ==
    [i \in 1..Len(s) |->
        IF \E k \in 1..Len(UPPER) : UPPER[k] = s[i]
        THEN LOWER[CHOOSE k \in 1..Len(UPPER) : UPPER[k] = s[i]]
        ELSE s[i]]

\* String.prototype.includes
StrIncludes(s, term) == IndexOf(s, term) # 0

\* The filter's test looking at the name only
ModelMatches_NameOnly(model, searchTerm) ==
    StrIncludes(ToLowerCase(model.mainModelName), searchTerm)

\* The filter's test: the term occurs in the name, in the codename when
\* there is one, or in a variant's model number or name
ModelMatches(model, searchTerm) ==
    \/ StrIncludes(ToLowerCase(model.mainModelName), searchTerm)
    \/ /\ model.codename # Undefined
       /\ StrIncludes(ToLowerCase(model.codename), searchTerm)
    \/ \E v \in 1..Len(model.variants) :
          \/ StrIncludes(ToLowerCase(model.variants[v].modelNumber), searchTerm)
          \/ StrIncludes(ToLowerCase(model.variants[v].variantName), searchTerm)

\* searchModels returning the matching records twice over
searchModels_Twice(models, query) ==
    IF Trim(query) = <<>> THEN models
    ELSE LET searchTerm == ToLowerCase(query)
             Test(model) == ModelMatches(model, searchTerm)
         IN  SelectSeq(models, Test) \o SelectSeq(models, Test)

searchModels_NoTrim(models, query) ==
    IF query = <<>> THEN models
    ELSE LET searchTerm == ToLowerCase(query)
             Test(model) == ModelMatches(model, searchTerm)
         IN  SelectSeq(models, Test)

searchModels(models, query) ==
    IF Trim(query) = <<>> THEN models
    ELSE LET searchTerm == ToLowerCase(query)
             Test(model) == ModelMatches(model, searchTerm)
         IN  SelectSeq(models, Test)

NoSearch == [models |-> <<>>, query |-> <<>>, result |-> <<>>, st |-> "idle"]

-----------------------------------------------------------------------------
(* parseBrandName and capitalizeWords (lib/data-parser).                   *)

MD_EXT == <<".","m","d">>
SUFFIX_CN == <<"_","c","n">>
SUFFIX_GLOBAL_EN == <<"_","g","l","o","b","a","l","_","e","n">>
SUFFIX_EN == <<"_","e","n">>
SUFFIX_ALL == <<"_","a","l","l">>
QUALIFIER_CHINA == <<" ","(","C","h","i","n","a",")">>
QUALIFIER_GLOBAL == <<" ","(","G","l","o","b","a","l",")">>
QUALIFIER_ENGLISH == <<" ","(","E","n","g","l","i","s","h",")">>

\* The characters the pattern /[-_\s]/ matches
IsSeparator(c) == c \in {"-", "_"} \/ IsSpace(c)

\* str.split(/[-_\s]/): the pieces between the separators, empty ones kept
SplitWords(str) ==
    LET cuts == {0, Len(str) + 1} \cup {i \in 1..Len(str) : IsSeparator(str[i])}
        Cut(k) == CHOOSE c \in cuts : Cardinality({d \in cuts : d < c}) = k
    IN  [k \in 1..(Cardinality(cuts) - 1) |-> SubSeq(str, Cut(k - 1) + 1, Cut(k) - 1)]

\* String.prototype.toUpperCase, on the letters a to z
ToUpperCase(s) ==
    [i \in 1..Len(s) |->
        IF \E k \in 1..Len(LOWER) : LOWER[k] = s[i]
        THEN UPPER[CHOOSE k \in 1..Len(LOWER) : LOWER[k] = s[i]]
        ELSE s[i]]

\* String.prototype.charAt(0): the first character, "" for the empty string
CharAt0(word) == IF word = <<>> THEN <<>> ELSE <<word[1]>>

\* The callback of map keeping the rest of the word as it is
CapitalizeWord_KeepRest(word) ==
    ToUpperCase(CharAt0(word)) \o SubSeq(word, 2, Len(word))

\* word.charAt(0).toUpperCase() + word.slice(1).toLowerCase()
CapitalizeWord(word) ==
    ToUpperCase(CharAt0(word)) \o ToLowerCase(SubSeq(word, 2, Len(word)))

\* Array.prototype.join(" ")
JoinWords(words) ==
    LET joined[n \in 0..Len(words)] ==
            IF n = 0 THEN <<>>
            ELSE IF n = 1 THEN words[1]
            ELSE joined[n - 1] \o <<" ">> \o words[n]
    IN  joined[Len(words)]

\* The pieces put one after another
Concat(pieces) ==
    LET joined[n \in 0..Len(pieces)] ==
            IF n = 0 THEN <<>> ELSE joined[n - 1] \o pieces[n]
    IN  joined[Len(pieces)]

capitalizeWords(str) ==
    LET words == SplitWords(str)
    IN  JoinWords([k \in 1..Len(words) |-> CapitalizeWord(words[k])])

\* const cleanName = filename.replace(".md", "")
CleanNameOf(filename) == Replace(filename, MD_EXT, <<>>)

\* The suffix the chain of endsWith tests selects, <<>> when none does
SuffixOf(cleanName) ==
    IF EndsWith(cleanName, SUFFIX_CN) THEN SUFFIX_CN
    ELSE IF EndsWith(cleanName, SUFFIX_GLOBAL_EN) THEN SUFFIX_GLOBAL_EN
    ELSE IF EndsWith(cleanName, SUFFIX_EN) THEN SUFFIX_EN
    ELSE IF EndsWith(cleanName, SUFFIX_ALL) THEN SUFFIX_ALL
    ELSE <<>>

\* What each branch appends to the capitalized base
QualifierOf(suffix) ==
    IF suffix = SUFFIX_CN THEN QUALIFIER_CHINA
    ELSE IF suffix = SUFFIX_GLOBAL_EN THEN QUALIFIER_GLOBAL
    ELSE IF suffix = SUFFIX_EN THEN QUALIFIER_ENGLISH
    ELSE <<>>

\* const baseName = cleanName.replace(suffix, ""); cleanName when no branch
\* is taken
BaseNameOf(cleanName) ==
    LET suffix == SuffixOf(cleanName)
    IN  IF suffix = <<>> THEN cleanName ELSE Replace(cleanName, suffix, <<>>)

parseBrandName(filename) ==
    LET cleanName == CleanNameOf(filename)
    IN  [name |-> capitalizeWords(BaseNameOf(cleanName)) \o QualifierOf(SuffixOf(cleanName)),
         slug |-> cleanName]

NoNaming == [filename |-> <<>>, name |-> <<>>, slug |-> <<>>, st |-> "idle"]

-----------------------------------------------------------------------------
(* The proxy route and the api client (api/github-proxy/route.ts,          *)
(* lib/api-client): what a failed request for the directory listing makes  *)
(* fetchBrandFiles throw.  An upstream failure is the proxy without a      *)
(* token, a response of GitHub that is not ok (its status and its text),   *)
(* or a fetch that throws inside the proxy.                                *)

UpstreamFailures ==
    {[kind |-> "no_token", status |-> <<"5","0","0">>, text |-> <<>>],
     [kind |-> "status", status |-> <<"4","0","3">>, text |-> <<"A","P","I"," ","r","a","t","e"," ","l","i","m","i","t"," ","e","x","c","e","e","d","e","d">>],
     [kind |-> "status", status |-> <<"4","0","4">>, text |-> <<"N","o","t"," ","F","o","u","n","d">>],
     [kind |-> "status", status |-> <<"5","0","2">>, text |-> <<"B","a","d"," ","G","a","t","e","w","a","y">>],
     [kind |-> "status", status |-> <<"5","0","3">>, text |-> <<>>],
     [kind |-> "throws", status |-> <<"5","0","0">>, text |-> <<"f","e","t","c","h"," ","f","a","i","l","e","d">>]}

\* GET of the proxy route: the status and the JSON body of its answer
ProxyResponse(upstream) ==
    IF upstream.kind = "no_token"
    THEN [status |-> <<"5","0","0">>,
          error |-> <<"G","i","t","H","u","b"," ","t","o","k","e","n"," ","n","o","t"," ","c","o","n","f","i","g","u","r","e","d">>,
          details |-> <<"P","l","e","a","s","e"," ","s","e","t"," ","G","I","T","H","U","B","_","T","O","K","E","N"," ","i","n"," ","y","o","u","r"," ",".","e","n","v",".","l","o","c","a","l"," ","f","i","l","e">>]
    ELSE IF upstream.kind = "throws"
    THEN [status |-> <<"5","0","0">>, error |-> <<"N","e","t","w","o","r","k"," ","e","r","r","o","r">>, details |-> upstream.text]
    ELSE IF upstream.status = <<"4","0","3">>
    THEN [status |-> <<"4","0","3">>,
          error |-> <<"G","i","t","H","u","b"," ","A","P","I"," ","r","a","t","e"," ","l","i","m","i","t"," ","e","x","c","e","e","d","e","d"," ","o","r"," ","i","n","v","a","l","i","d"," ","t","o","k","e","n">>,
          details |-> <<"P","l","e","a","s","e"," ","c","h","e","c","k"," ","y","o","u","r"," ","G","i","t","H","u","b"," ","t","o","k","e","n"," ","p","e","r","m","i","s","s","i","o","n","s">>]
    ELSE IF upstream.status = <<"4","0","4">>
    THEN [status |-> <<"4","0","4">>,
          error |-> <<"R","e","p","o","s","i","t","o","r","y"," ","o","r"," ","f","i","l","e"," ","n","o","t"," ","f","o","u","n","d">>,
          details |-> <<"P","l","e","a","s","e"," ","v","e","r","i","f","y"," ","t","h","e"," ","r","e","p","o","s","i","t","o","r","y"," ","e","x","i","s","t","s"," ","a","n","d"," ","i","s"," ","a","c","c","e","s","s","i","b","l","e">>]
    ELSE [status |-> upstream.status, error |-> <<"G","i","t","H","u","b"," ","A","P","I"," ","e","r","r","o","r",":"," ">> \o upstream.status,
          details |-> upstream.text]

\* errorData.details || errorData.error || `HTTP ${response.status}`: the
\* message of the Error that fetchBrandFiles throws
FetchErrorMessage(response) ==
    IF response.details # <<>> THEN response.details
    ELSE IF response.error # <<>> THEN response.error
    ELSE <<"H","T","T","P"," ">> \o response.status

-----------------------------------------------------------------------------
(* The home page (app/page.tsx): loadAllData and the search.  Of the       *)
(* component's state the model keeps what decides the view: loading,       *)
(* error, allBrands, filteredBrands, searchResults, searchQuery,           *)
(* searchMode, cacheInfo, isModelsLoading, modelsLoadedCount, totalBrands  *)
(* and retryCount, with the locals of each run of loadAllData (files,      *)
(* brandMetadata, resultsMap, the brands whose document is awaited).       *)
(* event names the step taken last, run the run that took it and upstream  *)
(* the failure the last request met; nothing in the page depends on them.  *)

MSG_NO_FILES == <<"N","o"," ","b","r","a","n","d"," ","f","i","l","e","s"," ","f","o","u","n","d"," ","i","n"," ","t","h","e"," ","r","e","p","o","s","i","t","o","r","y">>
MSG_TOKEN == <<"G","i","t","H","u","b"," ","t","o","k","e","n"," ","n","o","t"," ","c","o","n","f","i","g","u","r","e","d","."," ","P","l","e","a","s","e"," ","a","d","d"," ","G","I","T","H","U","B","_","T","O","K","E","N"," ","t","o"," ","y","o","u","r"," ",".","e","n","v",".","l","o","c","a","l"," ","f","i","l","e",".">>
MSG_RATE_LIMIT == <<"G","i","t","H","u","b"," ","A","P","I"," ","r","a","t","e"," ","l","i","m","i","t"," ","e","x","c","e","e","d","e","d","."," ","P","l","e","a","s","e"," ","t","r","y"," ","a","g","a","i","n"," ","l","a","t","e","r"," ","o","r"," ","c","h","e","c","k"," ","y","o","u","r"," ","t","o","k","e","n",".">>
MSG_REPOSITORY == <<"R","e","p","o","s","i","t","o","r","y"," ","n","o","t"," ","f","o","u","n","d","."," ","P","l","e","a","s","e"," ","v","e","r","i","f","y"," ","t","h","e"," ","r","e","p","o","s","i","t","o","r","y"," ","U","R","L"," ","i","s"," ","c","o","r","r","e","c","t",".">>
MSG_FAILED == <<"F","a","i","l","e","d"," ","t","o"," ","l","o","a","d"," ","d","a","t","a",":"," ">>

\* The catch block of loadAllData: the message shown for a thrown message
LoadErrorMessage(errorMessage) ==
    IF StrIncludes(errorMessage, <<"G","i","t","H","u","b"," ","t","o","k","e","n"," ","n","o","t"," ","c","o","n","f","i","g","u","r","e","d">>) THEN MSG_TOKEN
    ELSE IF StrIncludes(errorMessage, <<"r","a","t","e"," ","l","i","m","i","t">>) THEN MSG_RATE_LIMIT
    ELSE IF StrIncludes(errorMessage, <<"4","0","4">>) THEN MSG_REPOSITORY
    ELSE MSG_FAILED \o errorMessage

\* The order of String.prototype.localeCompare on the characters of the
\* names: white space, punctuation, digits, then the letters without
\* regard to case; strings that differ in nothing else compare equal
COLLATION ==
    <<" ", "_", "-", ".", "(", ")", "0","1","2","3","4","5","6","7","8","9">> \o LOWER

Rank(c) ==
    LET lower == ToLowerCase(<<c>>)[1]
    IN  IF \E r \in 1..Len(COLLATION) : COLLATION[r] = lower
        THEN CHOOSE r \in 1..Len(COLLATION) : COLLATION[r] = lower
        ELSE 0

\* a.localeCompare(b) < 0
LocaleLess(a, b) ==
    \E n \in 1..(Len(b)) :
        /\ \A m \in 1..(n - 1) : m <= Len(a) /\ Rank(a[m]) = Rank(b[m])
        /\ n > Len(a) \/ Rank(a[n]) < Rank(b[n])

\* Array.prototype.sort((a, b) => a.name.localeCompare(b.name)), which is
\* stable
SortByName(brands) ==
    LET Before(j, i) ==
            \/ LocaleLess(brands[j].name, brands[i].name)
            \/ ~LocaleLess(brands[i].name, brands[j].name) /\ j < i
        Place(i) == 1 + Cardinality({j \in 1..Len(brands) : j # i /\ Before(j, i)})
    IN  [k \in 1..Len(brands) |-> brands[CHOOSE i \in 1..Len(brands) : Place(i) = k]]

\* files.map(...) of loadAllData: a brand without models per file, sorted
BrandMetadata(files) ==
    SortByName([f \in 1..Len(files) |->
                   [name |-> parseBrandName(files[f]).name,
                    slug |-> parseBrandName(files[f]).slug,
                    filename |-> files[f],
                    models |-> <<>>]])

\* `brand_${brand.slug}`
BrandCacheKey(slug) == BRAND_PREFIX \o slug

\* JSON.stringify of an item whose data is an array of brands or of models:
\* JSON.parse gives the array back (a codename that is undefined is left
\* out of the text and is undefined again when read)
ArrayItemText(item) == <<item.data, item.timestamp, item.expiry>>

\* cacheManager.set(key, data) with an array for data, at clock t
SetArray(c, s, k, data, t) ==
    LET item == NewItem(data, <<>>, t, t)
    IN  [cache |-> MapSet(c, k, item),
         store |-> SetItem(s, StorageKey(k), ArrayItemText(item))]

\* cacheManager.get(key) where arrays are cached: whether it returned one
\* (an array is truthy), the array, and the tiers it leaves
GetArray(c, s, k, t) ==
    LET l == Lookup(c, s, k, {})
        g == GetEffect(c, s, k, t, {})
        hit == l.found /\ ~(t > l.item.expiry)
    IN  [hit |-> hit, data |-> IF hit THEN l.item.data ELSE <<>>,
         cache |-> g.cache, store |-> g.store]

\* One entry of modelResults per variant of a matching model
VariantResults(brand, model) ==
    [v \in 1..Len(model.variants) |->
        [brand |-> brand.name, brandSlug |-> brand.slug,
         mainModelName |-> model.mainModelName,
         modelNumber |-> model.variants[v].modelNumber,
         variantName |-> model.variants[v].variantName,
         codename |-> model.codename]]

\* The modelResults that handleSearch collects over the brands
ModelResults(allBrands, trimmedQuery) ==
    Concat([b \in 1..Len(allBrands) |->
               LET matchingModels == searchModels(allBrands[b].models, trimmedQuery)
               IN  Concat([n \in 1..Len(matchingModels) |->
                              VariantResults(allBrands[b], matchingModels[n])])])

\* The brandResults of handleSearch
BrandResults(allBrands, trimmedQuery) ==
    LET term == ToLowerCase(trimmedQuery)
        Test(brand) == \/ StrIncludes(ToLowerCase(brand.name), term)
                       \/ StrIncludes(ToLowerCase(brand.slug), term)
    IN  SelectSeq(allBrands, Test)

\* handleSearch showing the brands whenever a brand matches
SearchOutcome_BrandsFirst(allBrands, trimmedQuery) ==
    LET modelResults == ModelResults(allBrands, trimmedQuery)
        brandResults == BrandResults(allBrands, trimmedQuery)
    IN  IF Len(brandResults) > 0
        THEN [searchMode |-> "brands", searchResults |-> <<>>,
              filteredBrands |-> brandResults]
        ELSE IF Len(modelResults) > 0
        THEN [searchMode |-> "models", searchResults |-> modelResults,
              filteredBrands |-> <<>>]
        ELSE [searchMode |-> "brands", searchResults |-> <<>>, filteredBrands |-> <<>>]

\* What handleSearch sets for a query that is not empty
SearchOutcome(allBrands, trimmedQuery) ==
    LET modelResults == ModelResults(allBrands, trimmedQuery)
        brandResults == BrandResults(allBrands, trimmedQuery)
    IN  IF Len(modelResults) > 0
        THEN [searchMode |-> "models", searchResults |-> modelResults,
              filteredBrands |-> <<>>]
        ELSE IF Len(brandResults) > 0
        THEN [searchMode |-> "brands", searchResults |-> <<>>,
              filteredBrands |-> brandResults]
        ELSE [searchMode |-> "brands", searchResults |-> <<>>, filteredBrands |-> <<>>]

\* Mutation of QueryEffect: the effect computes the search anew whenever
\* allBrands changes
QueryEffect_Recomputed(h) ==
    IF Trim(h.searchQuery) = <<>>
    THEN [h EXCEPT !.searchMode = "brands", !.filteredBrands = h.allBrands,
                   !.searchResults = <<>>]
    ELSE LET outcome == SearchOutcome(h.allBrands, Trim(h.searchQuery))
         IN  [h EXCEPT !.searchMode = outcome.searchMode,
                       !.searchResults = outcome.searchResults,
                       !.filteredBrands = outcome.filteredBrands]

\* The effect on [allBrands, searchQuery]: without a query the page shows
\* all brands
QueryEffect(h) ==
    IF Trim(h.searchQuery) = <<>>
    THEN [h EXCEPT !.searchMode = "brands", !.filteredBrands = h.allBrands,
                   !.searchResults = <<>>]
    ELSE h

NoUpstream == [kind |-> "none", status |-> <<>>, text |-> <<>>]

\* The locals of one run of loadAllData: where it stands (pc), and, on the
\* fresh path, brandMetadata, resultsMap (in the order of its set calls), the
\* brands whose document is awaited and those whose request failed
NewRun ==
    [pc |-> "start", files |-> <<>>, brandMetadata |-> <<>>, resultsMap |-> <<>>,
     awaited |-> {},
     failed |-> {}]

EndedRun == [NewRun EXCEPT !.pc = "ended"]

\* The component as useState initializes it, its effect not yet run; runs
\* holds the runs of loadAllData that the effect has started, event and run
\* name the step taken last and the run that took it
HomeInitial ==
    [loading |-> TRUE, error |-> <<>>, allBrands |-> <<>>,
     filteredBrands |-> <<>>, searchResults |-> <<>>, searchQuery |-> <<>>,
     searchMode |-> "brands", isFromCache |-> FALSE, cacheInfo |-> <<>>,
     isModelsLoading |-> FALSE, modelsLoadedCount |-> 0, totalBrands |-> 0,
     retryCount |-> 0, runs |-> <<NewRun>>, event |-> "mount", run |-> 0,
     upstream |-> NoUpstream]

\* loadAllData up to its first await, as run r of the component h over the
\* tiers c and s at clock t: the global entry is read from the cache; with it
\* the page shows the cached brands after a pause, without it the listing is
\* requested
LoadStart(h, c, s, t, r) ==
    LET got == GetArray(c, s, AllModelsGlobalData, t)
        info == GetCacheInfoEffect(got.cache, got.store, AllModelsGlobalData, t).info
    IN  [cache |-> got.cache,
         store |-> got.store,
         home  |-> IF got.hit
                   THEN QueryEffect([h EXCEPT !.runs[r].pc = "pause", !.loading = TRUE,
                                              !.error = <<>>, !.allBrands = got.data,
                                              !.filteredBrands = got.data,
                                              !.isFromCache = TRUE,
                                              !.cacheInfo = <<info>>, !.run = r])
                   ELSE [h EXCEPT !.runs[r].pc = "files", !.loading = TRUE,
                                  !.error = <<>>, !.isFromCache = FALSE, !.run = r]]

-----------------------------------------------------------------------------
(* The brand page (app/[brandSlug]/page.tsx): loadBrandData.  The model    *)
(* keeps the slug the page was opened with, loading, error, brandName,     *)
(* allModels, filteredModels (the page's query is left empty, so the two   *)
(* are equal) and isFromCache.  listed tells whether the listing held a    *)
(* document of the slug and event names the step taken last; nothing in    *)
(* the page depends on them.                                               *)

MSG_EMPTY_CONTENT == <<"F","a","i","l","e","d"," ","t","o"," ","l","o","a","d"," ","b","r","a","n","d"," ","d","a","t","a"," ","-"," ","e","m","p","t","y"," ","c","o","n","t","e","n","t">>

\* `Brand "${brandSlug}" not found`
BrandNotFound(brandSlug) ==
    <<"B","r","a","n","d"," ","\"">> \o brandSlug
        \o <<"\""," ","n","o","t"," ","f","o","u","n","d">>

\* files.find(...): the first file whose slug is brandSlug, <<>> when none
MatchingFile(files, brandSlug) ==
    LET hits == {f \in 1..Len(files) : parseBrandName(files[f]).slug = brandSlug}
    IN  IF hits = {} THEN <<>>
        ELSE files[CHOOSE f \in hits : \A g \in hits : f <= g]

\* The component as useState initializes it, its effect not yet run
BrandPageInitial(brandSlug) ==
    [brandSlug |-> brandSlug, pc |-> "start", loading |-> TRUE, error |-> <<>>,
     brandName |-> <<>>, allModels |-> <<>>, filteredModels |-> <<>>,
     isFromCache |-> FALSE, matchingFile |-> <<>>, listed |-> "unknown",
     event |-> "mount"]

NoBrandPage == BrandPageInitial(<<>>)

-----------------------------------------------------------------------------
(* The state machine.                                                      *)

NoKey == <<>>
NoInfo == [exists |-> FALSE, age |-> 0, expiresIn |-> 0]

\* Where the entry of key k is when an operation on k begins
Held(k) ==
    IF CacheHas(cache, k) THEN "fast"
    ELSE IF StorageKey(k) \in DOMAIN store THEN "durable"
    ELSE "none"

\* `last`: the operation (op, key and, for set, data, ttl and the item built),
\* where its key's entry was when it began (held), whether a localStorage
\* call it made threw (failed), whether it raised to its caller (threw), and
\* what it returned (ret, info, brands); id is the load it belongs to
Op(op, k) ==
    [op |-> op, key |-> k, data |-> Null, ttl |-> <<>>, item |-> NoItem,
     held |-> Held(k), failed |-> FALSE, threw |-> FALSE, ret |-> Null,
     info |-> NoInfo, brands |-> <<>>, id |-> 0]

IdleLoad == [st |-> "idle", key |-> NoKey, data |-> Null]

CacheInit ==
    /\ cache = <<>>
    /\ store = (ThemeKey :> ThemeText)
    /\ now = 0
    /\ last = [op |-> "init", key |-> NoKey, data |-> Null, ttl |-> <<>>,
               item |-> NoItem, held |-> "none", failed |-> FALSE, threw |-> FALSE,
               ret |-> Null, info |-> NoInfo, brands |-> <<>>, id |-> 0]
    /\ loads = [l \in 1..MaxLoads |-> IdleLoad]

Init ==
    /\ CacheInit
    /\ parser = NoParse
    /\ search = NoSearch
    /\ naming = NoNaming
    /\ home = HomeInitial
    /\ brandPage = NoBrandPage

\* Time passes
Tick ==
    /\ now < MaxClock
    /\ now' = now + 1
    /\ last' = Op("tick", NoKey)
    /\ UNCHANGED <<cache, store, loads, parser, search, naming, home, brandPage>>

\* cacheManager.set(k, data, ttlArg); Date.now() gives now for the timestamp and
\* t2 for the expiry (the specifications below let time pass between
\* operations only, so t2 = now)
Set(k, data, ttlArg, t2, fails) ==
    LET e == SetEffect(cache, store, k, data, ttlArg, now, t2, fails)
    IN  /\ cache' = e.cache
        /\ store' = e.store
        /\ now' = t2
        /\ last' = [Op("set", k) EXCEPT !.data = data, !.ttl = ttlArg, !.item = e.item,
                                         !.failed = "setItem" \in fails,
                                         !.threw = e.threw]
        /\ UNCHANGED <<loads, parser, search, naming, home, brandPage>>

\* cacheManager.get(k)
Get(k, fails) ==
    LET e == GetEffect(cache, store, k, now, fails)
        l == Lookup(cache, store, k, fails)
    IN  /\ cache' = e.cache
        /\ store' = e.store
        /\ last' = [Op("get", k) EXCEPT !.ret = e.ret, !.threw = e.threw,
                        !.failed = IF l.found
                                   THEN now > l.item.expiry /\ "removeItem" \in fails
                                   ELSE ~CacheHas(cache, k) /\ "getItem" \in fails]
        /\ UNCHANGED <<now, loads, parser, search, naming, home, brandPage>>

\* cacheManager.getForSearch(k)
GetForSearch(k, fails) ==
    LET e == GetForSearchEffect(cache, store, k, fails)
    IN  /\ cache' = e.cache
        /\ store' = e.store
        /\ last' = [Op("getForSearch", k) EXCEPT !.ret = e.ret, !.threw = e.threw,
                        !.failed = ~CacheHas(cache, k) /\ "getItem" \in fails]
        /\ UNCHANGED <<now, loads, parser, search, naming, home, brandPage>>

\* cacheManager.delete(k)
Delete(k, fails) ==
    LET e == DeleteEffect(cache, store, k, fails)
    IN  /\ cache' = e.cache
        /\ store' = e.store
        /\ last' = [Op("delete", k) EXCEPT !.threw = e.threw,
                        !.failed = "removeItem" \in fails]
        /\ UNCHANGED <<now, loads, parser, search, naming, home, brandPage>>

\* cacheManager.clear()
Clear(q, at, fails) ==
    LET e == ClearEffect(cache, store, q, at, fails)
    IN  /\ cache' = e.cache
        /\ store' = e.store
        /\ last' = [Op("clear", NoKey) EXCEPT !.threw = e.threw, !.failed = fails # {},
                        !.held = IF cache # <<>> /\ CachePrefixed(DOMAIN store) # {}
                                 THEN "both"
                                 ELSE IF cache # <<>> THEN "fast"
                                 ELSE IF CachePrefixed(DOMAIN store) # {} THEN "durable"
                                 ELSE "none"]
        /\ UNCHANGED <<now, loads, parser, search, naming, home, brandPage>>

\* cacheManager.getCacheInfo(k)
GetCacheInfo(k) ==
    LET e == GetCacheInfoEffect(cache, store, k, now)
    IN  /\ cache' = e.cache
        /\ store' = e.store
        /\ last' = [Op("getCacheInfo", k) EXCEPT !.info = e.info]
        /\ UNCHANGED <<now, loads, parser, search, naming, home, brandPage>>

\* cacheManager.getCachedBrands()
GetCachedBrands(q, fails) ==
    LET e == GetCachedBrandsEffect(cache, q, fails)
    IN  /\ last' = [Op("getCachedBrands", NoKey) EXCEPT !.brands = e.ret,
                        !.threw = e.threw, !.failed = "keys" \in fails]
        /\ UNCHANGED <<cache, store, now, loads, parser, search, naming, home, brandPage>>

\* The page is reloaded: the module is evaluated anew, the Map is empty, the
\* loads of the old page are gone; localStorage stays
Restart ==
    /\ cache' = <<>>
    /\ loads' = [l \in 1..MaxLoads |-> IdleLoad]
    /\ last' = Op("restart", NoKey)
    /\ UNCHANGED <<store, now, parser, search, naming, home, brandPage>>

\* The calls of set the model issues: on one brand's key with and without a
\* customExpiry and with every payload, on the listing's key the call the
\* home page makes
SetCalls ==
    {<<BrandA, "A", ttlArg>> : ttlArg \in TtlArgs}
        \cup {<<BrandA, data, <<>>>> : data \in Payloads}
        \cup {<<AllBrandsMetadata, "A", <<>>>>}

ApiKeys == {BrandA, AllBrandsMetadata}

Next ==
    \/ Tick
    \/ \E c \in SetCalls, fails \in SUBSET {"setItem"} : Set(c[1], c[2], c[3], now, fails)
    \/ \E k \in ApiKeys, fails \in {{}, {"removeItem"}, {"getItem", "removeItem"}} :
          Get(k, fails)
    \/ \E k \in ApiKeys, fails \in SUBSET {"getItem"} : GetForSearch(k, fails)
    \/ \E k \in ApiKeys, fails \in SUBSET {"removeItem"} : Delete(k, fails)
    \/ \E fails \in {{}, {"keys"}} : Clear(<<>>, 1, fails)
    \/ \E q \in Orders(DOMAIN store), at \in 1..Cardinality(DOMAIN store) :
          /\ StartsWith(q[at], KEY_PREFIX)
          /\ Clear(q, at, {"removeItem"})
    \/ \E k \in ApiKeys : GetCacheInfo(k)
    \/ \E q \in Orders(DOMAIN store) : GetCachedBrands(q, {})
    \/ GetCachedBrands(<<>>, {"keys"})
    \/ Restart

Spec == Init /\ [][Next]_vars

\* The cache with a durable tier that never fails: every call of set, get,
\* getForSearch, delete and clear on the two keys, time passing and the page
\* being reloaded; nothing else writes localStorage
NextReliable ==
    \/ Tick
    \/ \E c \in SetCalls : Set(c[1], c[2], c[3], now, {})
    \/ \E k \in ApiKeys : Get(k, {})
    \/ \E k \in ApiKeys : GetForSearch(k, {})
    \/ \E k \in ApiKeys : Delete(k, {})
    \/ Clear(<<>>, 1, {})
    \/ Restart

SpecReliable == Init /\ [][NextReliable]_vars

\* The cache called with every kind of customExpiry: omitted, 0, negative and
\* positive.  set reads the clock twice (timestamp: Date.now(), expiry:
\* Date.now() + expiry), and the clock may advance between the two reads
TtlInputs == {<<>>, <<0>>, <<-1>>, <<1>>}

SetAcrossTick(ttlArg, fails) ==
    /\ now < MaxClock
    /\ Set(BrandA, "A", ttlArg, now + 1, fails)

NextTtl ==
    \/ Tick
    \/ \E ttlArg \in TtlInputs, fails \in SUBSET {"setItem"} :
          Set(BrandA, "A", ttlArg, now, fails)
    \/ \E ttlArg \in TtlInputs, fails \in SUBSET {"setItem"} :
          SetAcrossTick(ttlArg, fails)
    \/ \E fails \in {{}, {"removeItem"}} : Get(BrandA, fails)
    \/ GetForSearch(BrandA, {})
    \/ GetCacheInfo(BrandA)
    \/ Restart

SpecTtl == Init /\ [][NextTtl]_vars

\* The cache with both brands' keys and the listing's key, each set as the
\* pages set it (no customExpiry), for the operations that enumerate keys
NextBrands ==
    \/ \E k \in Keys, fails \in SUBSET {"setItem"} : Set(k, "A", <<>>, now, fails)
    \/ \E k \in Keys : Get(k, {})
    \/ \E k \in Keys, fails \in SUBSET {"removeItem"} : Delete(k, fails)
    \/ \E q \in Orders(DOMAIN store) : GetCachedBrands(q, {})
    \/ GetCachedBrands(<<>>, {"keys"})
    \/ Restart

SpecBrands == Init /\ [][NextBrands]_vars

-----------------------------------------------------------------------------
(* The home page's asynchronous loads.  loadAllData starts one load per    *)
(* brand; each awaits its document and then writes brand_<slug>.  A        *)
(* refresh starts loadAllData again while loads of the earlier run are     *)
(* still awaiting: nothing cancels them.  Loads are started in the order   *)
(* of their numbers.                                                       *)

\* What a fetched document parses to
LoadPayloads == {"A", "B"}

\* brandMetadata.map(async (brand) => { ... await fetchBrandMarkdown(...)
StartLoad(l, k) ==
    /\ loads[l].st = "idle"
    /\ \A m \in 1..(l - 1) : loads[m].st # "idle"
    /\ loads' = [loads EXCEPT ![l] = [st |-> "inflight", key |-> k, data |-> Null]]
    /\ last' = [Op("start", k) EXCEPT !.id = l]
    /\ UNCHANGED <<cache, store, now, parser, search, naming, home, brandPage>>

\* The fetch of load l resolves with a document that parses to data:
\* cacheManager.set(brandModelsCacheKey, models)
CompleteLoad(l, data, fails) ==
    LET k == loads[l].key
        e == SetEffect(cache, store, k, data, <<>>, now, now, fails)
    IN  /\ loads[l].st = "inflight"
        /\ cache' = e.cache
        /\ store' = e.store
        /\ loads' = [loads EXCEPT ![l] = [st |-> "done", key |-> k, data |-> data]]
        /\ last' = [Op("load", k) EXCEPT !.id = l, !.data = data, !.item = e.item,
                        !.failed = "setItem" \in fails, !.threw = e.threw]
        /\ UNCHANGED <<now, parser, search, naming, home, brandPage>>

\* The fetch of load l rejects: the catch block writes nothing to the cache
FailLoad(l) ==
    /\ loads[l].st = "inflight"
    /\ loads' = [loads EXCEPT ![l] = [st |-> "done", key |-> loads[l].key, data |-> Null]]
    /\ last' = [Op("loadFailed", loads[l].key) EXCEPT !.id = l]
    /\ UNCHANGED <<cache, store, now, parser, search, naming, home, brandPage>>

\* The keys handleRefreshData deletes, in its order
RefreshKeys == <<AllBrandsMetadata, AllModelsGlobalData, BrandA, BrandB>>

RECURSIVE DeleteAll(_, _, _, _)
DeleteAll(c, s, ks, fails) ==
    IF ks = <<>> THEN [cache |-> c, store |-> s, threw |-> FALSE]
    ELSE LET d == DeleteEffect(c, s, Head(ks), fails)
         IN  IF d.threw THEN d ELSE DeleteAll(d.cache, d.store, Tail(ks), fails)

\* handleRefreshData: the deletes; the loads of the new run start after it
Refresh(fails) ==
    LET e == DeleteAll(cache, store, RefreshKeys, fails)
    IN  /\ cache' = e.cache
        /\ store' = e.store
        /\ last' = [Op("refresh", NoKey) EXCEPT !.threw = e.threw,
                        !.failed = "removeItem" \in fails]
        /\ UNCHANGED <<now, loads, parser, search, naming, home, brandPage>>

NextLoads ==
    \/ Tick
    \/ \E l \in 1..MaxLoads, k \in BrandKeys : StartLoad(l, k)
    \/ \E l \in 1..MaxLoads, data \in LoadPayloads, fails \in SUBSET {"setItem"} :
          CompleteLoad(l, data, fails)
    \/ \E l \in 1..MaxLoads : FailLoad(l)
    \/ \E fails \in SUBSET {"removeItem"} : Refresh(fails)

SpecLoads == Init /\ [][NextLoads]_vars

-----------------------------------------------------------------------------
(* Runs of parseMarkdownContent: the texts it is given, and its steps.     *)

MaxLines == 4

LineSeriesA == <<"#","#"," ","A">>
LineSeriesB == <<"#","#"," ","B">>
LineHeading == <<"*","*","[","C","1","]"," ","P","1",":","*","*">>
LineVariantM == <<GRAVE,"M","1",GRAVE,":"," ","V","1">>
LineVariantN == <<" ",GRAVE,"M","2",GRAVE,":"," "," ","V","2"," ">>
LineProse == <<"n","o","t","e">>
LineBold == <<"*","*","N","o","t","e","*","*">>

LinePlain == <<"*","*","P","2",":","*","*">>
LineParen == <<"*","*","(","C","3",")"," ","P","3",":","*","*">>
LineGroups == <<"*","*","P","4"," ","(","5","G",")"," ","[","x","]"," ","P","r","o",":","*","*">>
LineDollar == <<"*","*","[","C","5","]"," ","[","$","x","]","]",":","*","*">>
LineTitle == <<"#"," ","T">>

\* The lines that the texts of up to MaxLines lines are made of
LineKinds ==
    {LineSeriesA, LineSeriesB, LineHeading, LineVariantM, LineVariantN,
     LineProse, LineBold}

\* The six-line document of the specification's example
ExampleDoc ==
    << <<"#","#"," ","S","e","r","i","e","s"," ","A">>,
       <<"*","*","[","C","O","D","1","]"," ","P","h","o","n","e"," ","O","n","e",":","*","*">>,
       <<GRAVE,"M","N","-","1","0","0",GRAVE,":"," ","B","a","s","e"," ","E","d","i","t","i","o","n">>,
       <<GRAVE,"M","N","-","1","0","1",GRAVE,":"," ","P","r","o"," ","E","d","i","t","i","o","n">>,
       <<"*","*","P","h","o","n","e"," ","T","w","o",":","*","*">>,
       <<GRAVE,"M","N","-","2","0","0",GRAVE,":"," ","S","t","a","n","d","a","r","d">> >>

\* Documents of their own: one per form of model heading, a title line
\* inside a model, and two sections of one model each
HeadingDocs ==
    {<<h, LineVariantM>> : h \in {LinePlain, LineParen, LineGroups, LineDollar}}
    \cup {<<LineHeading, LineTitle, LineVariantM>>,
          <<LineSeriesA, LineHeading, LineVariantM,
            LineSeriesB, LinePlain, LineVariantN>>,
          ExampleDoc}

Docs ==
    UNION {[1..n -> LineKinds] : n \in 0..MaxLines} \cup HeadingDocs

\* Array.prototype.join("\n"): the text whose lines are doc
RECURSIVE Join(_)
Join(doc) ==
    IF Len(doc) = 0 THEN <<>>
    ELSE IF Len(doc) = 1 THEN doc[1]
    ELSE doc[1] \o <<"\n">> \o Join(Tail(doc))

Contents == {Join(doc) : doc \in Docs}

ParseSection ==
    /\ StepKind(parser) = "section"
    /\ parser' = SectionStep(parser)
    /\ UNCHANGED <<cache, store, now, last, loads, search, naming, home, brandPage>>

ParseHeadingLine ==
    /\ StepKind(parser) = "heading"
    /\ parser' = HeadingStep(parser)
    /\ UNCHANGED <<cache, store, now, last, loads, search, naming, home, brandPage>>

ParseOther ==
    /\ StepKind(parser) = "other"
    /\ parser' = OtherStep(parser)
    /\ UNCHANGED <<cache, store, now, last, loads, search, naming, home, brandPage>>

ScanVariant ==
    /\ StepKind(parser) = "variant"
    /\ parser' = VariantStep(parser)
    /\ UNCHANGED <<cache, store, now, last, loads, search, naming, home, brandPage>>

ScanSkip ==
    /\ StepKind(parser) = "skip"
    /\ parser' = SkipStep(parser)
    /\ UNCHANGED <<cache, store, now, last, loads, search, naming, home, brandPage>>

ScanEnd ==
    /\ StepKind(parser) = "endscan"
    /\ parser' = EndScanStep(parser)
    /\ UNCHANGED <<cache, store, now, last, loads, search, naming, home, brandPage>>

ParseReturn ==
    /\ StepKind(parser) = "return"
    /\ parser' = ReturnStep(parser)
    /\ UNCHANGED <<cache, store, now, last, loads, search, naming, home, brandPage>>

InitParse ==
    /\ CacheInit
    /\ parser \in {StartParse(content) : content \in Contents}
    /\ search = NoSearch
    /\ naming = NoNaming
    /\ home = HomeInitial
    /\ brandPage = NoBrandPage

NextParse ==
    \/ ParseSection
    \/ ParseHeadingLine
    \/ ParseOther
    \/ ScanVariant
    \/ ScanSkip
    \/ ScanEnd
    \/ ParseReturn

SpecParse == InitParse /\ [][NextParse]_vars

\* The run is not suspended: a step that can be taken is taken
SpecParseFair == SpecParse /\ WF_vars(NextParse)

-----------------------------------------------------------------------------
(* Calls of searchModels.                                                  *)

MaxModels == 2

SampleModels ==
    {[mainModelName |-> <<"P","h","o","n","e"," ","O","n","e">>, codename |-> <<"C","O","D","1">>, series |-> <<"S","e","r","i","e","s"," ","A">>,
      variants |-> <<[modelNumber |-> <<"M","N","-","1","0","0">>, variantName |-> <<"B","a","s","e"," ","E","d","i","t","i","o","n">>],
                     [modelNumber |-> <<"M","N","-","1","0","1">>, variantName |-> <<"P","r","o"," ","E","d","i","t","i","o","n">>]>>],
     [mainModelName |-> <<"P","h","o","n","e"," ","T","w","o">>, codename |-> Undefined, series |-> <<"S","e","r","i","e","s"," ","A">>,
      variants |-> <<[modelNumber |-> <<"M","N","-","2","0","0">>, variantName |-> <<"S","t","a","n","d","a","r","d">>]>>],
     [mainModelName |-> <<"P","a","d">>, codename |-> <<"n","a","b","u">>, series |-> Undefined,
      variants |-> <<[modelNumber |-> <<"2","1","0","5","1","1","8","2","G">>, variantName |-> <<"P","a","d"," ","5"," "," ","G","l","o","b","a","l">>]>>]}

Queries ==
    {<<>>, <<" ">>, <<" "," ">>, <<"\t"," ">>, <<"p","r","o">>, <<"P","H","O","N","E">>, <<"m","n","-","2">>, <<" ","o","n","e">>, <<"z","z","z">>,
     <<"m","n","-","2","0","0">>, <<"M","N","-","2","0","0">>, <<"c","o","d">>}

Search(query) ==
    /\ search.st # "none"
    /\ search' = [search EXCEPT !.query = query, !.st = "done",
                                !.result = searchModels(search.models, query)]
    /\ UNCHANGED <<cache, store, now, last, loads, parser, naming, home, brandPage>>

InitSearch ==
    /\ CacheInit
    /\ parser = NoParse
    /\ \E models \in UNION {[1..n -> SampleModels] : n \in 0..MaxModels} :
          search = [NoSearch EXCEPT !.models = models]
    /\ naming = NoNaming
    /\ home = HomeInitial
    /\ brandPage = NoBrandPage

NextSearch == \E query \in Queries : Search(query)

SpecSearch == InitSearch /\ [][NextSearch]_vars

-----------------------------------------------------------------------------
(* Calls of parseBrandName: the names of the listed documents.             *)

MaxPieces == 3

\* What the names are put together from
NamePieces ==
    {<<"a">>, <<"B">>, <<"_">>, <<"-">>, <<" ">>, SUFFIX_CN, SUFFIX_EN, SUFFIX_GLOBAL_EN, SUFFIX_ALL, MD_EXT}

\* Names as a listing gives them
ListedNames ==
    {<<"b","r","a","n","d","_","g","l","o","b","a","l","_","e","n",".","m","d">>, <<"b","r","a","n","d","_","c","n",".","m","d">>, <<"b","r","a","n","d","_","e","n",".","m","d">>, <<"b","r","a","n","d","_","a","l","l",".","m","d">>, <<"b","r","a","n","d",".","m","d">>,
     <<"m","y","-","B","R","A","N","D"," ","t","w","o",".","m","d">>, <<"a","_","c","n","b","_","c","n",".","m","d">>, <<"x","_","e","n","_","y","_","e","n",".","m","d">>, <<"v","1",".","m","d","x",".","m","d">>}

\* fetchBrandFiles keeps the names that end in ".md"
Filenames ==
    ListedNames \cup
        {Concat(pieces) \o MD_EXT :
            pieces \in UNION {[1..n -> NamePieces] : n \in 0..MaxPieces}}

ParseName ==
    /\ naming.st = "idle"
    /\ LET parsed == parseBrandName(naming.filename)
       IN  naming' = [naming EXCEPT !.name = parsed.name, !.slug = parsed.slug,
                                    !.st = "done"]
    /\ UNCHANGED <<cache, store, now, last, loads, parser, search, home, brandPage>>

InitNames ==
    /\ CacheInit
    /\ parser = NoParse
    /\ search = NoSearch
    /\ home = HomeInitial
    /\ brandPage = NoBrandPage
    /\ naming \in {[NoNaming EXCEPT !.filename = filename] : filename \in Filenames}

NextNames == ParseName

SpecNames == InitNames /\ [][NextNames]_vars

-----------------------------------------------------------------------------
(* The home page's steps.  The durable tier works in these runs, and the   *)
(* clock stands still.  A run of loadAllData is not cancelled when the     *)
(* effect starts another: its requests settle and its callbacks set the    *)
(* component's state all the same.                                         *)

MaxRetries == 1
MaxRefreshes == 2

\* The runs of loadAllData that one component may start
RunIds == 1..(MaxRetries + MaxRefreshes + 1)

\* The listings the repository may give, and its documents
FilePhone == <<"p","h","o","n","e","_","e","n",".","m","d">>
FilePad == <<"p","a","d",".","m","d">>
Listings == {<<>>, <<FilePad>>, <<FilePhone, FilePad>>}

PadDoc == << <<"*","*","[","n","a","b","u","]"," ","P","a","d"," ","5",":","*","*">>, <<GRAVE,"2","1","0","5","1","1","8","2","G",GRAVE,":"," ","P","a","d"," ","5"," ","G","l","o","b","a","l">> >>

DocumentOf(filename) ==
    IF filename = FilePhone THEN Join(ExampleDoc)
    ELSE IF filename = FilePad THEN Join(PadDoc)
    ELSE <<>>

\* What the user may type into the search field
SearchInputs ==
    {<<>>, <<" ","p","a","d"," ">>, <<"e","n","g","l","i","s","h">>, <<"_","e","n">>, <<"p","r","o">>, <<"z","z","z">>}

\* Run r stands at pc
IsAt(r, pc) == r <= Len(home.runs) /\ home.runs[r].pc = pc

\* The effect of the mounted component runs loadAllData to its first await
HomeLoadStart ==
    /\ IsAt(1, "start")
    /\ LET e == LoadStart([home EXCEPT !.event = "start"], cache, store, now, 1)
       IN  /\ cache' = e.cache
           /\ store' = e.store
           /\ home' = e.home
    /\ UNCHANGED <<now, last, loads, parser, search, naming, brandPage>>

\* The pause of the cached branch is over: finally
HomePauseDone(r) ==
    /\ IsAt(r, "pause")
    /\ home' = [home EXCEPT !.runs[r] = EndedRun, !.loading = FALSE,
                            !.event = "shown", !.run = r]
    /\ UNCHANGED <<cache, store, now, last, loads, parser, search, naming, brandPage>>

\* fetchBrandFiles of run r resolved with the listing
HomeFilesArrive(r, files) ==
    /\ IsAt(r, "files")
    /\ IF Len(files) = 0
       THEN /\ home' = [home EXCEPT !.runs[r] = EndedRun, !.error = MSG_NO_FILES,
                                    !.loading = FALSE, !.event = "files", !.run = r]
            /\ UNCHANGED <<cache, store>>
       ELSE LET brandMetadata == BrandMetadata(files)
                put == SetArray(cache, store, AllBrandsMetadata, brandMetadata, now)
            IN  /\ cache' = put.cache
                /\ store' = put.store
                /\ home' = QueryEffect(
                       [home EXCEPT !.runs[r] =
                                        [NewRun EXCEPT
                                            !.pc = "models", !.files = files,
                                            !.brandMetadata = brandMetadata,
                                            !.awaited = {brandMetadata[b].slug :
                                                            b \in 1..Len(brandMetadata)}],
                                    !.allBrands = brandMetadata,
                                    !.filteredBrands = brandMetadata,
                                    !.totalBrands = Len(brandMetadata),
                                    !.loading = FALSE, !.isModelsLoading = TRUE,
                                    !.modelsLoadedCount = 0,
                                    !.event = "files", !.run = r])
    /\ UNCHANGED <<now, last, loads, parser, search, naming, brandPage>>

\* fetchBrandFiles of run r threw: the catch block and finally
HomeFilesFail(r, upstream) ==
    /\ IsAt(r, "files")
    /\ home' = [home EXCEPT !.runs[r] = EndedRun,
                            !.error = LoadErrorMessage(
                                          FetchErrorMessage(ProxyResponse(upstream))),
                            !.loading = FALSE, !.event = "failed", !.run = r,
                            !.upstream = upstream]
    /\ UNCHANGED <<cache, store, now, last, loads, parser, search, naming, brandPage>>

\* The brand of metadata with the given slug
BrandOf(brandMetadata, slug) ==
    brandMetadata[CHOOSE b \in 1..Len(brandMetadata) : brandMetadata[b].slug = slug]

\* The document of one brand of run r arrived: it is parsed, cached and
\* shown; finally the count of loaded brands goes up
HomeModelsArrive(r, slug) ==
    /\ IsAt(r, "models")
    /\ slug \in home.runs[r].awaited
    /\ LET brand == BrandOf(home.runs[r].brandMetadata, slug)
           models == parseMarkdownContent(DocumentOf(brand.filename))
           put == SetArray(cache, store, BrandCacheKey(slug), models, now)
       IN  /\ cache' = put.cache
           /\ store' = put.store
           /\ home' = QueryEffect(
                  [home EXCEPT !.runs[r].awaited = @ \ {slug},
                               !.runs[r].resultsMap =
                                   Append(@, [brand EXCEPT !.models = models]),
                               !.allBrands =
                                   [b \in 1..Len(@) |->
                                       IF @[b].slug = slug
                                       THEN [@[b] EXCEPT !.models = models] ELSE @[b]],
                               !.modelsLoadedCount = @ + 1,
                               !.event = "models", !.run = r])
    /\ UNCHANGED <<now, last, loads, parser, search, naming, brandPage>>

\* The request for one brand's document of run r failed: the brand stays
\* without models; finally the count of loaded brands goes up
HomeModelsFail(r, slug) ==
    /\ IsAt(r, "models")
    /\ slug \in home.runs[r].awaited
    /\ home' = [home EXCEPT !.runs[r].awaited = @ \ {slug},
                            !.runs[r].failed = @ \cup {slug},
                            !.runs[r].resultsMap =
                                Append(@, BrandOf(home.runs[r].brandMetadata, slug)),
                            !.modelsLoadedCount = @ + 1,
                            !.event = "models_failed", !.run = r]
    /\ UNCHANGED <<cache, store, now, last, loads, parser, search, naming, brandPage>>

\* Mutation of Completed: [...resultsMap.values()], the brands in the order
\* in which their requests settled
Completed_AsSettled(brandMetadata, resultsMap) == resultsMap

\* resultsMap.get(b.slug) ?? b
Completed(brandMetadata, resultsMap) ==
    [b \in 1..Len(brandMetadata) |->
        IF \E m \in 1..Len(resultsMap) : resultsMap[m].slug = brandMetadata[b].slug
        THEN resultsMap[CHOOSE m \in 1..Len(resultsMap) :
                            resultsMap[m].slug = brandMetadata[b].slug]
        ELSE brandMetadata[b]]

\* Promise.allSettled of run r resolved: the whole data set is cached
HomeModelsDone(r) ==
    /\ IsAt(r, "models")
    /\ home.runs[r].awaited = {}
    /\ LET put == SetArray(cache, store, AllModelsGlobalData,
                           Completed(home.runs[r].brandMetadata,
                                     home.runs[r].resultsMap), now)
           info == GetCacheInfoEffect(put.cache, put.store, AllModelsGlobalData,
                                      now).info
       IN  /\ cache' = put.cache
           /\ store' = put.store
           /\ home' = [home EXCEPT !.runs[r] = EndedRun, !.cacheInfo = <<info>>,
                                   !.isModelsLoading = FALSE, !.loading = FALSE,
                                   !.event = "cached", !.run = r]
    /\ UNCHANGED <<now, last, loads, parser, search, naming, brandPage>>

\* The slugs of the listed documents
Slugs == {parseBrandName(filename).slug : filename \in {FilePhone, FilePad}}

\* The user types searchInput and submits it: handleSearch
HandleSearch(searchInput) ==
    /\ ~home.loading
    /\ home.error = <<>>
    /\ LET trimmedQuery == Trim(searchInput)
           outcome == Const({SearchOutcome(home.allBrands, trimmedQuery)})
       IN  home' =
               IF trimmedQuery = <<>>
               THEN [home EXCEPT !.searchQuery = trimmedQuery, !.searchMode = "brands",
                                 !.filteredBrands = home.allBrands,
                                 !.searchResults = <<>>, !.event = "search"]
               ELSE [home EXCEPT !.searchQuery = trimmedQuery,
                                 !.searchMode = outcome.searchMode,
                                 !.searchResults = outcome.searchResults,
                                 !.filteredBrands = outcome.filteredBrands,
                                 !.event = "search"]
    /\ UNCHANGED <<cache, store, now, last, loads, parser, search, naming, brandPage>>

\* Clear Search, Show All Brands, or the field emptied: setSearchQuery("")
ClearSearch ==
    /\ ~home.loading
    /\ home.error = <<>>
    /\ home.searchQuery # <<>>
    /\ home' = QueryEffect([home EXCEPT !.searchQuery = <<>>, !.event = "cleared"])
    /\ UNCHANGED <<cache, store, now, last, loads, parser, search, naming, brandPage>>

\* Try Again on the error view: handleRetry; the effect on [retryCount] runs
\* loadAllData again, to its first await
HandleRetry ==
    /\ ~home.loading
    /\ home.error # <<>>
    /\ home.retryCount < MaxRetries
    /\ LET r == Len(home.runs) + 1
           e == LoadStart([home EXCEPT !.retryCount = @ + 1,
                                       !.runs = Append(@, NewRun),
                                       !.event = "retry"], cache, store, now, r)
       IN  /\ cache' = e.cache
           /\ store' = e.store
           /\ home' = e.home
    /\ UNCHANGED <<now, last, loads, parser, search, naming, brandPage>>

\* Refresh, shown with the cache status once cacheInfo is set:
\* handleRefreshData deletes the entries of the listing, of the whole data
\* set and of the brands shown; the effect on [retryCount] runs loadAllData
\* again, to its first await
HandleRefreshData ==
    /\ ~home.loading
    /\ home.error = <<>>
    /\ home.cacheInfo # <<>>
    /\ home.retryCount < MaxRefreshes
    /\ LET r == Len(home.runs) + 1
           d == DeleteAll(cache, store,
                          <<AllBrandsMetadata, AllModelsGlobalData>>
                              \o [b \in 1..Len(home.allBrands) |->
                                     BrandCacheKey(home.allBrands[b].slug)], {})
           e == LoadStart([home EXCEPT !.retryCount = @ + 1,
                                       !.runs = Append(@, NewRun),
                                       !.event = "refresh"], d.cache, d.store, now, r)
       IN  /\ cache' = e.cache
           /\ store' = e.store
           /\ home' = e.home
    /\ UNCHANGED <<now, last, loads, parser, search, naming, brandPage>>

\* The user leaves the page and comes back after its runs have ended: the
\* component is mounted anew, the cache manager is the same
HomeRemount ==
    /\ \A r \in 1..Len(home.runs) : home.runs[r].pc = "ended"
    /\ home.error = <<>>
    /\ home' = [HomeInitial EXCEPT !.event = "remount"]
    /\ UNCHANGED <<cache, store, now, last, loads, parser, search, naming, brandPage>>

InitHome ==
    /\ CacheInit
    /\ parser = NoParse
    /\ search = NoSearch
    /\ naming = NoNaming
    /\ home = HomeInitial
    /\ brandPage = NoBrandPage

\* The page with its search and Try Again: one run of loadAllData at a time
NextHome ==
    \/ HomeLoadStart
    \/ \E r \in RunIds : HomePauseDone(r)
    \/ \E r \in RunIds, files \in Listings : HomeFilesArrive(r, files)
    \/ \E r \in RunIds, upstream \in UpstreamFailures : HomeFilesFail(r, upstream)
    \/ \E r \in RunIds, slug \in Slugs : HomeModelsArrive(r, slug)
    \/ \E r \in RunIds, slug \in Slugs : HomeModelsFail(r, slug)
    \/ \E r \in RunIds : HomeModelsDone(r)
    \/ \E searchInput \in SearchInputs : HandleSearch(searchInput)
    \/ ClearSearch
    \/ HandleRetry
    \/ HomeRemount

SpecHome == InitHome /\ [][NextHome]_vars

\* The page with Refresh: a refresh during the background load of a run
\* starts the next run while the requests of that run are in flight
NextHomeRefresh ==
    \/ HomeLoadStart
    \/ \E r \in RunIds, files \in Listings : HomeFilesArrive(r, files)
    \/ \E r \in RunIds, upstream \in UpstreamFailures : HomeFilesFail(r, upstream)
    \/ \E r \in RunIds, slug \in Slugs : HomeModelsArrive(r, slug)
    \/ \E r \in RunIds, slug \in Slugs : HomeModelsFail(r, slug)
    \/ \E r \in RunIds : HomeModelsDone(r)
    \/ HandleRefreshData

SpecHomeRefresh == InitHome /\ [][NextHomeRefresh]_vars

-----------------------------------------------------------------------------
(* The brand page's steps.  The durable tier works in these runs, and the  *)
(* clock stands still.                                                     *)

\* The slugs the page is opened with: two of listed documents and one of
\* none
BrandSlugs == Slugs \cup {<<"g","h","o","s","t">>}

\* loadBrandData up to its first await: the brand's models are read from the
\* cache, and the listing is requested
BrandLoadStart ==
    /\ brandPage.pc = "start"
    /\ LET got == GetArray(cache, store, BrandCacheKey(brandPage.brandSlug), now)
       IN  /\ cache' = got.cache
           /\ store' = got.store
           /\ brandPage' =
                  IF got.hit
                  THEN [brandPage EXCEPT !.pc = "files_cached", !.loading = TRUE,
                                         !.error = <<>>, !.allModels = got.data,
                                         !.filteredModels = got.data,
                                         !.isFromCache = TRUE, !.event = "start"]
                  ELSE [brandPage EXCEPT !.pc = "files", !.loading = TRUE,
                                         !.error = <<>>, !.event = "start"]
    /\ UNCHANGED <<now, last, loads, parser, search, naming, home>>

\* fetchBrandFiles resolved with the listing
BrandFilesArrive(files) ==
    /\ brandPage.pc \in {"files", "files_cached"}
    /\ LET matchingFile == MatchingFile(files, brandPage.brandSlug)
           listed == IF matchingFile = <<>> THEN "no" ELSE "yes"
       IN  brandPage' =
               IF brandPage.pc = "files_cached"
               THEN [brandPage EXCEPT !.pc = "done", !.loading = FALSE,
                                      !.brandName = IF matchingFile = <<>> THEN @
                                                    ELSE parseBrandName(matchingFile).name,
                                      !.listed = listed, !.event = "files"]
               ELSE IF matchingFile = <<>>
               THEN [brandPage EXCEPT !.pc = "done",
                                      !.error = BrandNotFound(brandPage.brandSlug),
                                      !.listed = listed, !.event = "files"]
               ELSE [brandPage EXCEPT !.pc = "content",
                                      !.brandName = parseBrandName(matchingFile).name,
                                      !.matchingFile = matchingFile,
                                      !.listed = listed, !.event = "files"]
    /\ UNCHANGED <<cache, store, now, last, loads, parser, search, naming, home>>

\* fetchBrandFiles or fetchBrandMarkdown threw: the catch block
BrandFetchFail(upstream) ==
    /\ brandPage.pc \in {"files", "files_cached", "content"}
    /\ brandPage' = [brandPage EXCEPT !.pc = "done",
                                      !.error = FetchErrorMessage(ProxyResponse(upstream)),
                                      !.loading = FALSE, !.event = "failed"]
    /\ UNCHANGED <<cache, store, now, last, loads, parser, search, naming, home>>

\* A document's text as the proxy gives it: the document, or nothing
ContentsOf(filename) == {DocumentOf(filename), <<>>}

\* fetchBrandMarkdown resolved with the document's text
BrandContentArrive(content) ==
    /\ brandPage.pc = "content"
    /\ content \in ContentsOf(brandPage.matchingFile)
    /\ IF content = <<>>
       THEN /\ brandPage' = [brandPage EXCEPT !.pc = "done",
                                              !.error = MSG_EMPTY_CONTENT,
                                              !.event = "content"]
            /\ UNCHANGED <<cache, store>>
       ELSE LET models == parseMarkdownContent(content)
                put == SetArray(cache, store, BrandCacheKey(brandPage.brandSlug),
                                models, now)
            IN  /\ cache' = put.cache
                /\ store' = put.store
                /\ brandPage' = [brandPage EXCEPT !.pc = "done", !.allModels = models,
                                                  !.filteredModels = models,
                                                  !.isFromCache = FALSE,
                                                  !.loading = FALSE,
                                                  !.event = "content"]
    /\ UNCHANGED <<now, last, loads, parser, search, naming, home>>

\* window.location.reload(): the page and the cache manager start anew,
\* localStorage stays
BrandReload ==
    /\ brandPage.pc = "done"
    /\ brandPage' = [BrandPageInitial(brandPage.brandSlug) EXCEPT !.event = "reload"]
    /\ cache' = <<>>
    /\ UNCHANGED <<store, now, last, loads, parser, search, naming, home>>

\* The user goes back to the home page and opens a brand: the page is
\* mounted anew, the cache manager is the same
BrandOpen(brandSlug) ==
    /\ brandPage.pc = "done"
    /\ brandPage' = BrandPageInitial(brandSlug)
    /\ UNCHANGED <<cache, store, now, last, loads, parser, search, naming, home>>

InitBrandPage ==
    /\ CacheInit
    /\ parser = NoParse
    /\ search = NoSearch
    /\ naming = NoNaming
    /\ home = HomeInitial
    /\ brandPage \in {BrandPageInitial(brandSlug) : brandSlug \in BrandSlugs}

\* The steps of a running loadBrandData
BrandLoadSteps ==
    \/ BrandLoadStart
    \/ \E files \in Listings : BrandFilesArrive(files)
    \/ \E upstream \in UpstreamFailures : BrandFetchFail(upstream)
    \/ \E content \in UNION {ContentsOf(filename) : filename \in {FilePhone, FilePad}} :
          BrandContentArrive(content)

NextBrandPage ==
    \/ BrandLoadSteps
    \/ BrandReload
    \/ \E brandSlug \in BrandSlugs : BrandOpen(brandSlug)

SpecBrandPage == InitBrandPage /\ [][NextBrandPage]_vars

\* A request that was made is answered, and a load that can go on does
SpecBrandPageFair == SpecBrandPage /\ WF_vars(BrandLoadSteps)

-----------------------------------------------------------------------------
(* Properties of the cache.                                                *)

GetFails == {{}, {"removeItem"}, {"getItem", "removeItem"}}

\* C1: a get(k) issued right after set(k, v, ttl) with ttl > 0, at any clock
\* value not past the expiry, returns v, whether or not the durable write of
\* that set succeeded and whether or not the durable tier works during the get.
C1_GetAfterSetReturnsValue ==
    (last.op = "set" /\ ExpiryOf(last.ttl) > 0) =>
        \A t \in now..MaxClock, fails \in GetFails :
            t <= last.item.expiry =>
                GetEffect(cache, store, last.key, t, fails).ret = last.data

\* A get returned the payload of a set with a customExpiry whose durable write
\* failed: the durable tier holds nothing for the key
C1_Witness ==
    /\ last.op = "get"
    /\ last.key = BrandA
    /\ last.ret = "A"
    /\ CacheHas(cache, BrandA)
    /\ CacheGet(cache, BrandA).expiry < DEFAULT_EXPIRY
    /\ StorageKey(BrandA) \notin DOMAIN store

C3_DurableFallback ==
    \A k \in Keys :
        (/\ ~CacheHas(cache, k)
         /\ StorageKey(k) \in DOMAIN store
         /\ now <= JSONparse(store[StorageKey(k)]).expiry) =>
            \A fails \in {{}, {"removeItem"}} :
                LET g == GetEffect(cache, store, k, now, fails)
                    stored == JSONparse(store[StorageKey(k)])
                IN  /\ g.ret = stored.data
                    /\ CacheHas(g.cache, k)
                    /\ CacheGet(g.cache, k) = stored
                    /\ g.store = store

\* A get found its key in the durable tier only and returned its payload
C3_Witness ==
    /\ last.op = "get"
    /\ last.held = "durable"
    /\ last.ret = "A"
    /\ CacheHas(cache, last.key)

\* C4: an operation during which a durable-tier call failed does not raise to
\* its caller, and its fast-tier effect is applied: set has written its item,
\* delete and clear have removed, get and getForSearch have looked the key up
\* (the durable tier is only called when the fast tier has no live entry, so
\* they return null), getCachedBrands has listed the fast tier's brands.
C4_DurableFailureContained ==
    last.failed =>
        /\ ~last.threw
        /\ last.op = "set" =>
               CacheHas(cache, last.key) /\ CacheGet(cache, last.key) = last.item
        /\ last.op = "delete" => ~CacheHas(cache, last.key)
        /\ last.op = "clear" => cache = <<>>
        /\ last.op \in {"get", "getForSearch"} =>
               ~CacheHas(cache, last.key) /\ last.ret = Null
        /\ last.op = "getCachedBrands" => last.brands = FastBrands(cache)

\* A set whose durable write failed: the fast tier holds the item, the durable
\* tier nothing
C4_Witness ==
    /\ last.op = "set"
    /\ last.failed
    /\ CacheHas(cache, last.key)
    /\ StorageKey(last.key) \notin DOMAIN store

\* The entries of key k in the fast tier and in the durable tier are the same
\* before and after a step
EntryUnchanged(k) ==
    /\ CacheHas(cache', k) <=> CacheHas(cache, k)
    /\ CacheHas(cache, k) => CacheGet(cache', k) = CacheGet(cache, k)
    /\ StorageKey(k) \in DOMAIN store' <=> StorageKey(k) \in DOMAIN store
    /\ StorageKey(k) \in DOMAIN store => store'[StorageKey(k)] = store[StorageKey(k)]

\* Neither tier holds an entry for key k
EntryAbsent(c, s, k) == ~CacheHas(c, k) /\ StorageKey(k) \notin DOMAIN s

\* get, getForSearch and getCacheInfo on key k all report absent
ReadsAbsent(c, s, t, k) ==
    /\ \A fails \in GetFails :
           /\ GetEffect(c, s, k, t, fails).ret = Null
           /\ GetForSearchEffect(c, s, k, fails).ret = Null
    /\ ~GetCacheInfoEffect(c, s, k, t).info.exists

\* C5: a delete(k) whose durable removal succeeded leaves no entry for k in
\* either tier; any delete leaves the entries of every other key as they were;
\* and while neither tier holds k, every step other than a set(k) leaves it so,
\* with get(k), getForSearch(k) and getCacheInfo(k).exists reporting absent.
C5_DeleteRemovesFromBothTiers ==
    [][/\ (last'.op = "delete" /\ ~last'.failed) =>
              /\ EntryAbsent(cache', store', last'.key)
              /\ ReadsAbsent(cache', store', now', last'.key)
       /\ last'.op = "delete" =>
              /\ \A k2 \in Keys \ {last'.key} : EntryUnchanged(k2)
              /\ store'[ThemeKey] = store[ThemeKey]
       /\ \A k \in Keys :
              (EntryAbsent(cache, store, k) /\ ~(last'.op = "set" /\ last'.key = k)) =>
                  /\ EntryAbsent(cache', store', k)
                  /\ ReadsAbsent(cache', store', now', k)]_vars

\* A delete removed a key the fast tier held while both tiers hold another key
C5_Witness ==
    /\ last.op = "delete"
    /\ last.key = BrandA
    /\ last.held = "fast"
    /\ ~last.failed
    /\ EntryAbsent(cache, store, BrandA)
    /\ CacheHas(cache, AllBrandsMetadata)
    /\ StorageKey(AllBrandsMetadata) \in DOMAIN store

\* C6: a clear() whose durable calls succeeded leaves the fast tier empty and no
\* durable key that starts with seraphim_cache_; any clear() leaves every
\* durable key outside that prefix with its value.
C6_ClearRemovesPrefixedKeysOnly ==
    [][last'.op = "clear" =>
           /\ ~last'.failed =>
                  /\ cache' = <<>>
                  /\ \A x \in DOMAIN store' : ~StartsWith(x, KEY_PREFIX)
           /\ \A x \in DOMAIN store :
                  ~StartsWith(x, KEY_PREFIX) =>
                      x \in DOMAIN store' /\ store'[x] = store[x]]_vars

\* A clear emptied both tiers and the foreign key is still there
C6_Witness ==
    /\ last.op = "clear"
    /\ last.held = "both"
    /\ ~last.failed
    /\ cache = <<>>
    /\ DOMAIN store = {ThemeKey}
    /\ store[ThemeKey] = ThemeText

\* C7: getCacheInfo(k) leaves both tiers as they were, at every clock value, and
\* for an entry of the fast tier whose expiry has passed it reports
\* exists = true with a negative expiresIn.
C7_InfoLeavesTiersUnchanged ==
    [][last'.op = "getCacheInfo" =>
           /\ cache' = cache
           /\ store' = store
           /\ (CacheHas(cache, last'.key) /\ now > CacheGet(cache, last'.key).expiry) =>
                  /\ last'.info.exists
                  /\ last'.info.expiresIn < 0]_vars

\* getCacheInfo reported an expired entry, which the fast tier still holds
C7_Witness ==
    /\ last.op = "getCacheInfo"
    /\ last.info.exists
    /\ last.info.expiresIn < 0
    /\ CacheHas(cache, last.key)
    /\ StorageKey(last.key) \in DOMAIN store

\* The suffixes s with brand_<s> a fast-tier key or seraphim_cache_brand_<s> a
\* durable-tier key
BrandSuffixes ==
    {SubSeq(k, Len(BRAND_PREFIX) + 1, Len(k)) :
        k \in {x \in CacheKeys(cache) : StartsWith(x, BRAND_PREFIX)}}
    \cup
    {SubSeq(k, Len(STORAGE_BRAND_PREFIX) + 1, Len(k)) :
        k \in {x \in DOMAIN store : StartsWith(x, STORAGE_BRAND_PREFIX)}}

\* C8: a getCachedBrands() whose enumeration of the durable keys succeeded
\* returns exactly the suffixes of the brand keys of the two tiers, each once.
C8_CachedBrandsAreTheBrandKeys ==
    (last.op = "getCachedBrands" /\ ~last.failed) =>
        /\ {last.brands[i] : i \in 1..Len(last.brands)} = BrandSuffixes
        /\ \A i, j \in 1..Len(last.brands) : last.brands[i] = last.brands[j] => i = j

\* getCachedBrands listed two brands, one held by both tiers and one by the
\* durable tier only
C8_Witness ==
    /\ last.op = "getCachedBrands"
    /\ ~last.failed
    /\ Len(last.brands) = 2
    /\ CacheHas(cache, BrandA)
    /\ StorageKey(BrandA) \in DOMAIN store
    /\ ~CacheHas(cache, BrandB)
    /\ StorageKey(BrandB) \in DOMAIN store
    /\ CacheHas(cache, AllBrandsMetadata)

\* C9: when a load completes, the fast tier's entry of its key is wholly the
\* item that load's set built (its payload, the clock of its completion, that
\* clock plus the default expiry), whatever entry another load left there and
\* whichever load was started first; the durable tier's text of the key is that
\* item's text, or is left as it was when the durable write failed.
C9_LastCompletedLoadWins ==
    [][last'.op = "load" =>
           LET k == last'.key
               item == [data |-> loads'[last'.id].data,
                        timestamp |-> now,
                        expiry |-> now + DEFAULT_EXPIRY]
           IN  /\ CacheHas(cache', k)
               /\ CacheGet(cache', k) = item
               /\ ~last'.failed =>
                      /\ StorageKey(k) \in DOMAIN store'
                      /\ JSONparse(store'[StorageKey(k)]) = item
               /\ last'.failed =>
                      /\ StorageKey(k) \in DOMAIN store' <=> StorageKey(k) \in DOMAIN store
                      /\ StorageKey(k) \in DOMAIN store =>
                             store'[StorageKey(k)] = store[StorageKey(k)]]_vars

\* The load that was started first completed last, after a later load had
\* written another payload under the same key, and the cache holds its payload
C9_Witness ==
    /\ last.op = "load"
    /\ \E l2 \in 1..MaxLoads :
           /\ l2 > last.id
           /\ loads[l2].st = "done"
           /\ loads[l2].key = last.key
           /\ loads[l2].data \in LoadPayloads \ {last.data}
    /\ CacheGet(cache, last.key).data = last.data
    /\ JSONparse(store[StorageKey(last.key)]).data = last.data

\* C10: a set(k1, v, ttl) leaves the fast-tier entry and the durable-tier entry
\* of every other key, and the durable keys that are not the cache's, as they
\* were.
C10_SetTouchesOneKey ==
    [][last'.op = "set" =>
           /\ \A k2 \in Keys \ {last'.key} : EntryUnchanged(k2)
           /\ ThemeKey \in DOMAIN store' /\ store'[ThemeKey] = store[ThemeKey]]_vars

\* A set on one key while both tiers hold the entry of another key
C10_Witness ==
    /\ last.op = "set"
    /\ last.key = BrandA
    /\ ~last.failed
    /\ CacheHas(cache, AllBrandsMetadata)
    /\ StorageKey(AllBrandsMetadata) \in DOMAIN store

C30_StaleReadResolvesAsGet ==
    \A k \in Keys, fails \in GetFails :
        LET l == Lookup(cache, store, k, fails)
            stale == GetForSearchEffect(cache, store, k, fails)
        IN  /\ stale.cache = l.cache
            /\ stale.store = store
            /\ stale.ret = (IF l.found THEN l.item.data ELSE Null)
            /\ \A k2 \in Keys :
                   CacheHas(cache, k2) =>
                       /\ CacheHas(stale.cache, k2)
                       /\ CacheGet(stale.cache, k2) = CacheGet(cache, k2)
            /\ \A t \in 0..MaxClock :
                   (l.found /\ t <= l.item.expiry) =>
                       LET g == GetEffect(cache, store, k, t, fails)
                       IN  g.ret = stale.ret /\ g.cache = stale.cache /\ g.store = stale.store

\* A getForSearch found an expired entry in the durable tier only, returned
\* its payload and copied it into the fast tier
C30_Witness ==
    /\ last.op = "getForSearch"
    /\ last.held = "durable"
    /\ last.ret = "A"
    /\ CacheHas(cache, last.key)
    /\ now > CacheGet(cache, last.key).expiry
    /\ StorageKey(last.key) \in DOMAIN store

\* A step that may take the entry of k out of the fast tier or replace it:
\* set(k), delete(k), clear, a restart, and a get(k) past the expiry
Replaces(k) ==
    \/ last'.op \in {"clear", "restart"}
    \/ last'.op \in {"set", "delete"} /\ last'.key = k
    \/ last'.op = "get" /\ last'.key = k /\ now > CacheGet(cache, k).expiry

\* C31: the fast tier is authoritative.  A set leaves its item in the fast
\* tier whether or not its durable write failed; the item stays there until a
\* set or delete of the key, a clear, a restart or its expiry; and while the
\* fast tier holds an entry for k that has not expired, get(k) and
\* getForSearch(k) return that entry's payload whatever the durable tier holds
\* for k -- so after a set(k, v2) whose durable write failed over an older
\* durable v1, they return v2 and never v1.
C31_FastTierIsAuthoritative ==
    /\ [](last.op = "set" =>
              CacheHas(cache, last.key) /\ CacheGet(cache, last.key) = last.item)
    /\ [](\A k \in Keys :
              CacheHas(cache, k) =>
                  \A fails \in GetFails :
                      /\ now <= CacheGet(cache, k).expiry =>
                             GetEffect(cache, store, k, now, fails).ret
                                 = CacheGet(cache, k).data
                      /\ GetForSearchEffect(cache, store, k, fails).ret
                             = CacheGet(cache, k).data)
    /\ [][\A k \in Keys :
              (CacheHas(cache, k) /\ ~Replaces(k)) =>
                  CacheHas(cache', k) /\ CacheGet(cache', k) = CacheGet(cache, k)]_vars

\* A get returned the payload of a set whose durable write had failed, while
\* the durable tier holds an older entry of the key with another payload
C31_Witness ==
    /\ last.op = "get"
    /\ last.held = "fast"
    /\ last.ret = "A"
    /\ StorageKey(last.key) \in DOMAIN store
    /\ JSONparse(store[StorageKey(last.key)]).data # "A"

\* C37: getCacheInfo(k).exists is true exactly when the fast tier holds an
\* entry for k, in the call's result and at every key and state; of an entry
\* that only the durable tier holds (not expired, the durable tier readable)
\* it says exists = false in the state in which get(k) returns the payload.
C37_InfoReadsFastTierOnly ==
    /\ last.op = "getCacheInfo" => (last.info.exists <=> last.held = "fast")
    /\ \A k \in Keys :
           LET info == GetCacheInfoEffect(cache, store, k, now).info
           IN  /\ info.exists <=> CacheHas(cache, k)
               /\ (/\ ~CacheHas(cache, k)
                   /\ StorageKey(k) \in DOMAIN store
                   /\ now <= JSONparse(store[StorageKey(k)]).expiry) =>
                      /\ ~info.exists
                      /\ \A fails \in {{}, {"removeItem"}} :
                             GetEffect(cache, store, k, now, fails).ret
                                 = JSONparse(store[StorageKey(k)]).data

\* getCacheInfo said exists = false of a key that the durable tier holds and
\* that get would return
C37_Witness ==
    /\ last.op = "getCacheInfo"
    /\ last.held = "durable"
    /\ ~last.info.exists
    /\ ~CacheHas(cache, last.key)
    /\ GetEffect(cache, store, last.key, now, {}).ret = "A"

\* C36: once delete(k) or clear() has returned, a get(k) or getForSearch(k)
\* finds no entry for k (none written before the removal is left to return),
\* also when the durable removal failed during the delete or the clear.
C36_RemovedStaysRemoved ==
    /\ last.op = "delete" =>
           \A fails \in GetFails : ~Lookup(cache, store, last.key, fails).found
    /\ last.op = "clear" =>
           \A k \in Keys, fails \in GetFails : ~Lookup(cache, store, k, fails).found

\* C35 as stated: with a durable tier that never fails, every entry of the
\* fast tier is identical (payload, timestamp, expiry) to what the durable
\* tier holds under seraphim_cache_<key>, and the fast tier holds no key that
\* the durable tier lacks.
C35_TiersIdentical ==
    \A k \in CacheKeys(cache) :
        /\ StorageKey(k) \in DOMAIN store
        /\ CacheGet(cache, k) = JSONparse(store[StorageKey(k)])

\* C35, amended: with a durable tier that never fails, the fast tier holds
\* no key that the durable tier lacks, and the durable text of every key of
\* the fast tier is the JSON text of the fast tier's entry: same timestamp,
\* same expiry, and the payload as JSON.stringify writes it.
C35_TiersAgreeAsSerialized ==
    \A k \in CacheKeys(cache) :
        /\ StorageKey(k) \in DOMAIN store
        /\ JSONstringify(CacheGet(cache, k)) = store[StorageKey(k)]
        /\ CacheGet(cache, k).timestamp = JSONparse(store[StorageKey(k)]).timestamp
        /\ CacheGet(cache, k).expiry = JSONparse(store[StorageKey(k)]).expiry

\* The fast tier holds NaN as it was given to set, the durable tier holds it
\* as null, and a getForSearch has just read the entry
C35_Witness ==
    /\ last.op = "getForSearch"
    /\ CacheHas(cache, last.key)
    /\ CacheGet(cache, last.key).data = "NaN"
    /\ JSONparse(store[StorageKey(last.key)]).data = "null"

\* C38: set(k, v) with the customExpiry omitted and set(k, v, 0) both build
\* an entry whose expiry is its timestamp plus the default expiry, so the
\* entry of a set with 0 is not expired at any clock value of the model; the
\* entry of a set with a negative customExpiry is reported absent by get(k)
\* at every later clock value.
C38_ZeroTtlIsDefaultTtl ==
    /\ (last.op = "set" /\ last.ttl \in {<<>>, <<0>>}) =>
           /\ last.item.expiry = last.item.timestamp + DEFAULT_EXPIRY
           /\ \A t \in now..MaxClock, fails \in GetFails :
                  GetEffect(cache, store, last.key, t, fails).ret = last.data
    /\ (last.op = "set" /\ last.ttl # <<>> /\ last.ttl[1] < 0) =>
           \A t \in (now + 1)..(MaxClock + 1), fails \in GetFails :
               GetEffect(cache, store, last.key, t, fails).ret = Null

-----------------------------------------------------------------------------
(* Properties of parseMarkdownContent.  They are stated on the lines of    *)
(* the text and on the index of the line each record and each variant      *)
(* came from.                                                              *)

LineIndices == 0..(Len(parser.lines) - 1)

\* The line at index k reads as a section heading or as a model heading
IsHeadingAt(k) ==
    IsSectionHeading(LineAt(parser, k)) \/ IsModelHeading(LineAt(parser, k))

\* The index of the first heading after line h, the number of lines when
\* there is none
NextHeadingAfter(h) ==
    LET later == {k \in LineIndices : k > h /\ IsHeadingAt(k)}
    IN  IF later = {} THEN Len(parser.lines)
        ELSE CHOOSE k \in later : \A m \in later : k <= m

\* The indices of the lines after h and before the next heading that match
\* the variant pattern
VariantLinesOf(h) ==
    {k \in LineIndices :
        /\ h < k
        /\ k < NextHeadingAfter(h)
        /\ VariantMatch(LineAt(parser, k)).matched}

\* A record came from the model heading at line h
IsHead(h) == \E n \in 1..Len(parser.heads) : parser.heads[n] = h

\* C11: every record that parseMarkdownContent has pushed has at least one
\* variant, and a model heading with no variant line before the next heading
\* or the end of the text gives no record.
C11_EveryRecordHasAVariant ==
    /\ \A n \in 1..Len(parser.models) : Len(parser.models[n].variants) >= 1
    /\ \A h \in LineIndices :
          (IsModelHeading(LineAt(parser, h)) /\ VariantLinesOf(h) = {}) => ~IsHead(h)

\* A finished run that returned a record and met a model heading without
\* variant lines
C11_Witness ==
    /\ parser.pc = "done"
    /\ Len(parser.models) >= 1
    /\ \E h \in LineIndices :
          IsModelHeading(LineAt(parser, h)) /\ VariantLinesOf(h) = {} /\ ~IsHead(h)

\* The text of a section heading line: what follows "## "
SectionText(line) == Trim(SubSeq(line, Len(SECTION_MARK) + 1, Len(line)))

\* The section heading lines before line h
SectionsBefore(h) == {k \in LineIndices : k < h /\ IsSectionHeading(LineAt(parser, k))}

\* C12: the series of each record is the text of the last section heading
\* line before the record's model heading, and is absent exactly when no
\* section heading comes before it; a section heading met during the scan of
\* a model's variant lines ends the scan.
C12_SeriesIsLastSectionBefore ==
    /\ \A n \in 1..Len(parser.models) :
          LET before == SectionsBefore(parser.heads[n])
              latest == CHOOSE k \in before : \A m \in before : k >= m
          IN  /\ (before = {}) <=> (parser.models[n].series = Undefined)
              /\ before # {} =>
                    parser.models[n].series = SectionText(LineAt(parser, latest))
    /\ (/\ parser.pc = "inner"
        /\ parser.j < Len(parser.lines)
        /\ IsSectionHeading(LineAt(parser, parser.j))) => StepKind(parser) = "endscan"

\* A finished run that returned a record of one series and then a record of
\* another: the second section heading was met after the first model
C12_Witness ==
    /\ parser.pc = "done"
    /\ \E n, m \in 1..Len(parser.models) :
          /\ n < m
          /\ parser.models[n].series # Undefined
          /\ parser.models[m].series # parser.models[n].series
          /\ \E k \in SectionsBefore(parser.heads[m]) : k > parser.heads[n]

\* C13: the records are in the order of their model headings, and the
\* variants of each record are in the order of their lines; each record
\* carries the names of its heading and each variant what its line reads.
C13_RecordsAndVariantsInSourceOrder ==
    /\ \A n, m \in 1..Len(parser.heads) : n < m => parser.heads[n] < parser.heads[m]
    /\ \A n \in 1..Len(parser.models) :
          LET model == parser.models[n]
              from == parser.vlines[n]
          IN  /\ Len(from) = Len(model.variants)
              /\ \A a, b \in 1..Len(from) : a < b => from[a] < from[b]
              /\ \A a \in 1..Len(from) :
                    /\ parser.heads[n] < from[a]
                    /\ n < Len(parser.heads) => from[a] < parser.heads[n + 1]
                    /\ model.variants[a] = ParseVariant(LineAt(parser, from[a]))
              /\ model.mainModelName =
                    ParseHeading(LineAt(parser, parser.heads[n])).mainModelName

\* A finished run that returned two records, one of them with two variants
\* that differ
C13_Witness ==
    /\ parser.pc = "done"
    /\ Len(parser.models) >= 2
    /\ parser.models[1].mainModelName # parser.models[2].mainModelName
    /\ \E n \in 1..Len(parser.models) :
          /\ Len(parser.models[n].variants) >= 2
          /\ parser.models[n].variants[1] # parser.models[n].variants[2]

\* The variants that the lines after the model heading at h and before the
\* next heading read, in the order of the lines
RECURSIVE VariantsFrom(_, _)
VariantsFrom(k, end) ==
    IF k >= end THEN <<>>
    ELSE IF VariantMatch(LineAt(parser, k)).matched
         THEN <<ParseVariant(LineAt(parser, k))>> \o VariantsFrom(k + 1, end)
         ELSE VariantsFrom(k + 1, end)

\* C14: the variants of the model opened at a model heading are those of
\* all the lines matching the variant pattern up to the next section
\* heading, model heading or the end of the text: no other line ends the
\* collection.
C14_OnlyHeadingsEndCollection ==
    parser.pc = "done" =>
        \A h \in LineIndices :
            (IsModelHeading(LineAt(parser, h)) /\ VariantLinesOf(h) # {}) =>
                \E n \in 1..Len(parser.models) :
                    /\ parser.heads[n] = h
                    /\ parser.models[n].variants =
                          VariantsFrom(h + 1, NextHeadingAfter(h))

\* The lines that match the variant pattern
VariantLines == {k \in LineIndices : VariantMatch(LineAt(parser, k)).matched}

\* The line starts with "**" or with "#"
StartsBoldOrHash(line) ==
    \/ Len(line) >= 2 /\ line[1] = "*" /\ line[2] = "*"
    \/ Len(line) >= 1 /\ line[1] = "#"

\* Line k follows the model heading at line h with no line starting with
\* "**" or "#" in between
Follows(k, h) ==
    /\ h < k
    /\ IsModelHeading(LineAt(parser, h))
    /\ \A m \in (h + 1)..(k - 1) : ~StartsBoldOrHash(LineAt(parser, m))

\* The places <<n, a>> of the variants of the records: variant a of record n
VariantPlaces ==
    {<<n, a>> : n \in 1..Len(parser.vlines), a \in 1..MaxLines} \cap
        UNION {{<<n, a>> : a \in 1..Len(parser.vlines[n])} : n \in 1..Len(parser.vlines)}

HeadingBody(h) == Slice(LineAt(parser, h), Len(BOLD_MARK), 0 - Len(HEADING_END))

\* The body starts with a group: the opening character, one or more
\* characters other than the closing one, and the closing character
HasLeadingGroup(body, opening, closing) ==
    /\ Len(body) >= 1
    /\ body[1] = opening
    /\ IndexIn(body, {closing}, 2) >= 3

\* What the leading group encloses
LeadingCode(body, closing) == SubSeq(body, 2, IndexIn(body, {closing}, 2) - 1)

\* The leading group with the characters that enclose it
LeadingGroup(body, closing) == SubSeq(body, 1, IndexIn(body, {closing}, 2))

\* C15: a record whose heading body starts with "[CODE]" or with "(CODE)"
\* has the codename CODE and a mainModelName without that group; a record
\* whose heading body starts with neither has no codename.
C15_LeadingGroupIsCodename ==
    \A n \in 1..Len(parser.models) :
        LET body == HeadingBody(parser.heads[n])
            model == parser.models[n]
            closing == IF HasLeadingGroup(body, "[", "]") THEN "]" ELSE ")"
        IN  IF HasLeadingGroup(body, "[", "]") \/ HasLeadingGroup(body, "(", ")")
            THEN /\ model.codename = LeadingCode(body, closing)
                 /\ ~StrIncludes(model.mainModelName, LeadingGroup(body, closing))
            ELSE model.codename = Undefined

\* The text holds a complete group: an opening character and, after it, the
\* closing one
HasGroup(s, opening, closing) ==
    \E a, b \in 1..Len(s) : a < b /\ s[a] = opening /\ s[b] = closing

\* C16: the mainModelName of a record holds no complete bracket group and
\* no complete parenthesis group.
C16_NoGroupLeftInName ==
    \A n \in 1..Len(parser.models) :
        /\ ~HasGroup(parser.models[n].mainModelName, "[", "]")
        /\ ~HasGroup(parser.models[n].mainModelName, "(", ")")

\* C17: every run of parseMarkdownContent reaches its return; each pass of
\* the outer loop leaves the index i greater than it found it, the end of a
\* scan sets i to the index of the line that stopped the scan (the number
\* of lines when none did), and the run on the empty text returns no record.
C17_ParseTerminates ==
    /\ <>(parser.pc = "done")
    /\ [][/\ parser'.i >= parser.i
          /\ parser'.pc = "outer" => parser'.i > parser.i
          /\ (parser.pc = "inner" /\ parser'.pc = "outer") => parser'.i = parser.j]_vars
    /\ [](parser.pc = "done" =>
            /\ parser.i = Len(parser.lines)
            /\ parser.lines = <<<<>>>> => parser.models = <<>>)

\* The outer loop is back at the line that stopped the scan of a model that
\* was pushed: a line after that model's last variant line
C17_Witness ==
    /\ parser.pc = "outer"
    /\ parser.i < Len(parser.lines)
    /\ StopsScan(LineAt(parser, parser.i))
    /\ Len(parser.heads) >= 1
    /\ parser.heads[Len(parser.heads)] < parser.i
    /\ \A k \in LineIndices :
          (parser.heads[Len(parser.heads)] < k /\ k < parser.i)
              => ~StopsScan(LineAt(parser, k))

\* The canonical emission of a record sequence: the lines of one record
HeadingLineOf(model) ==
    BOLD_MARK
    \o (IF model.codename = Undefined THEN <<>>
        ELSE <<"[">> \o model.codename \o <<"]", " ">>)
    \o model.mainModelName \o HEADING_END

VariantLineOf(variant) ==
    <<GRAVE>> \o variant.modelNumber \o <<GRAVE, ":", " ">> \o variant.variantName

RecordLines(models, n) ==
    (IF /\ models[n].series # Undefined
        /\ (n = 1 \/ models[n - 1].series # models[n].series)
     THEN <<SECTION_MARK \o models[n].series>> ELSE <<>>)
    \o <<HeadingLineOf(models[n])>>
    \o [v \in 1..Len(models[n].variants) |-> VariantLineOf(models[n].variants[v])]

RECURSIVE EmissionFrom(_, _)
EmissionFrom(models, n) ==
    IF n > Len(models) THEN <<>>
    ELSE RecordLines(models, n) \o EmissionFrom(models, n + 1)

Emission(models) == Join(EmissionFrom(models, 1))

\* C18: parsing the canonical emission of the records a run returned gives
\* those records again.
C18_EmissionParsesBack ==
    parser.pc = "done" =>
        parseMarkdownContent(Emission(parser.models)) = parser.models

\* C19: the run on the six-line example returns two records: Phone One
\* with codename COD1, series Series A and the variants MN-100 Base
\* Edition and MN-101 Pro Edition, then Phone Two without codename, with
\* series Series A and the variant MN-200 Standard.
C19_ExampleParses ==
    (parser.pc = "done" /\ parser.lines = ExampleDoc) =>
        parser.models =
            <<[mainModelName |-> <<"P","h","o","n","e"," ","O","n","e">>, codename |-> <<"C","O","D","1">>,
               series |-> <<"S","e","r","i","e","s"," ","A">>,
               variants |->
                   <<[modelNumber |-> <<"M","N","-","1","0","0">>, variantName |-> <<"B","a","s","e"," ","E","d","i","t","i","o","n">>],
                     [modelNumber |-> <<"M","N","-","1","0","1">>, variantName |-> <<"P","r","o"," ","E","d","i","t","i","o","n">>]>>],
              [mainModelName |-> <<"P","h","o","n","e"," ","T","w","o">>, codename |-> Undefined,
               series |-> <<"S","e","r","i","e","s"," ","A">>,
               variants |->
                   <<[modelNumber |-> <<"M","N","-","2","0","0">>, variantName |-> <<"S","t","a","n","d","a","r","d">>]>>]>>

\* The run on the example has returned
C19_Witness == parser.pc = "done" /\ parser.lines = ExampleDoc /\ Len(parser.models) = 2

-----------------------------------------------------------------------------
(* Properties of searchModels.                                             *)

\* The query is empty or holds white space only
IsBlank(query) == \A i \in 1..Len(query) : IsSpace(query[i])

\* C20: searchModels called with a query that is empty or white space only
\* returns the records it was given, all of them and in their order.
C20_BlankQueryReturnsAll ==
    (search.st = "done" /\ IsBlank(search.query)) => search.result = search.models

\* A call with a query of white space on two records that differ
C20_Witness ==
    /\ search.st = "done"
    /\ IsBlank(search.query)
    /\ Len(search.query) >= 1
    /\ Len(search.models) = MaxModels
    /\ search.models[1] # search.models[MaxModels]
    /\ search.result = search.models

\* r can be obtained from s by leaving elements out: some strictly
\* increasing choice of positions of s gives r
IsSubsequence(r, s) ==
    \E at \in [1..Len(r) -> 1..Len(s)] :
        /\ \A n \in 1..Len(r) : s[at[n]] = r[n]
        /\ \A n, m \in 1..Len(r) : n < m => at[n] < at[m]

\* C21: what searchModels returns is a subsequence of the records it was
\* given (only records of the argument, none more often than there, in the
\* same relative order), for every query, and the call leaves its argument
\* as it was.
C21_ResultIsSubsequence ==
    /\ [](search.st = "done" => IsSubsequence(search.result, search.models))
    /\ [][search'.models = search.models]_vars

\* A call on two different records returned the second one only
C21_Witness ==
    /\ search.st = "done"
    /\ Len(search.models) = 2
    /\ search.models[1] # search.models[2]
    /\ search.result = <<search.models[2]>>

\* term occurs in s as a run of consecutive characters
Contains(s, term) ==
    \E from \in 1..(Len(s) - Len(term) + 1) :
        \A n \in 1..Len(term) : s[from + n - 1] = term[n]

\* The fields of a record that the claim names, lower-cased
SearchedFields(model) ==
    {ToLowerCase(model.mainModelName)}
        \cup (IF model.codename = Undefined THEN {} ELSE {ToLowerCase(model.codename)})
        \cup {ToLowerCase(model.variants[v].modelNumber) : v \in 1..Len(model.variants)}
        \cup {ToLowerCase(model.variants[v].variantName) : v \in 1..Len(model.variants)}

\* The two records of the end-to-end example
PhoneOne ==
    [mainModelName |-> <<"P","h","o","n","e"," ","O","n","e">>, codename |-> <<"C","O","D","1">>, series |-> <<"S","e","r","i","e","s"," ","A">>,
     variants |-> <<[modelNumber |-> <<"M","N","-","1","0","0">>, variantName |-> <<"B","a","s","e"," ","E","d","i","t","i","o","n">>],
                    [modelNumber |-> <<"M","N","-","1","0","1">>, variantName |-> <<"P","r","o"," ","E","d","i","t","i","o","n">>]>>]
PhoneTwo ==
    [mainModelName |-> <<"P","h","o","n","e"," ","T","w","o">>, codename |-> Undefined, series |-> <<"S","e","r","i","e","s"," ","A">>,
     variants |-> <<[modelNumber |-> <<"M","N","-","2","0","0">>, variantName |-> <<"S","t","a","n","d","a","r","d">>]>>]

\* C22: for a query that is not blank, a record is in the result exactly
\* when the lower-cased query occurs in its lower-cased name, codename (if
\* it has one), or in the model number or the name of one of its variants;
\* on the two records of the example, "pro" selects Phone One only and
\* "mn-200" (in either case) Phone Two only.
C22_ResultIsTheMatchingRecords ==
    (search.st = "done" /\ ~IsBlank(search.query)) =>
        /\ \A k \in 1..Len(search.models) :
               (\E r \in 1..Len(search.result) : search.result[r] = search.models[k])
                   <=> \E field \in SearchedFields(search.models[k]) :
                           Contains(field, ToLowerCase(search.query))
        /\ search.models = <<PhoneOne, PhoneTwo>> =>
               /\ search.query = <<"p","r","o">> => search.result = <<PhoneOne>>
               /\ search.query \in {<<"m","n","-","2","0","0">>, <<"M","N","-","2","0","0">>} => search.result = <<PhoneTwo>>

\* The query "pro" on the two records of the example selected Phone One
C22_Witness ==
    /\ search.st = "done"
    /\ search.models = <<PhoneOne, PhoneTwo>>
    /\ search.query = <<"p","r","o">>
    /\ search.result = <<PhoneOne>>

-----------------------------------------------------------------------------
(* Properties of the home page.                                            *)

\* Some model of some brand matches the query, by the test of C22
SomeModelMatches(allBrands, query) ==
    \E b \in 1..Len(allBrands) : \E n \in 1..Len(allBrands[b].models) :
        \E field \in SearchedFields(allBrands[b].models[n]) :
            Contains(field, ToLowerCase(query))

\* The lower-cased name or slug of the brand contains the lower-cased query
BrandMatches(brand, query) ==
    \/ Contains(ToLowerCase(brand.name), ToLowerCase(query))
    \/ Contains(ToLowerCase(brand.slug), ToLowerCase(query))

\* What the page renders: the grid of model results, the grid of brands
ModelsShown == home.searchMode = "models" /\ Len(home.searchResults) > 0
BrandsShown == home.searchMode = "brands" /\ Len(home.filteredBrands) > 0

\* C23: right after a query that is not empty was submitted, if a model of
\* some brand matches it the page is in mode "models" with model results
\* (each of a model that matches) and an empty brand list, also when a
\* brand's name or slug matches; if no model matches the page is in mode
\* "brands", without model results, and its brand list is the brands whose
\* name or slug matches, in their order.  In no state are model results and
\* brands shown together.
C23_ModelsBeforeBrands ==
    /\ (home.event = "search" /\ home.searchQuery # <<>>) =>
           IF SomeModelMatches(home.allBrands, home.searchQuery)
           THEN /\ home.searchMode = "models"
                /\ Len(home.searchResults) > 0
                /\ home.filteredBrands = <<>>
                /\ \A r \in 1..Len(home.searchResults) :
                       \E b \in 1..Len(home.allBrands) :
                           /\ home.allBrands[b].slug = home.searchResults[r].brandSlug
                           /\ \E n \in 1..Len(home.allBrands[b].models) :
                                  LET model == home.allBrands[b].models[n]
                                  IN  /\ model.mainModelName = home.searchResults[r].mainModelName
                                      /\ \E field \in SearchedFields(model) :
                                             Contains(field, ToLowerCase(home.searchQuery))
           ELSE /\ home.searchMode = "brands"
                /\ home.searchResults = <<>>
                /\ home.filteredBrands =
                       SelectSeq(home.allBrands,
                                 LAMBDA brand : BrandMatches(brand, home.searchQuery))
    /\ ~(ModelsShown /\ BrandsShown)
    /\ Len(home.searchResults) > 0 => home.filteredBrands = <<>>

\* The query "pad" was submitted while the brand Pad and its model Pad 5
\* both match: the model is shown and no brand is
C23_Witness ==
    /\ home.event = "search"
    /\ home.searchQuery = <<"p","a","d">>
    /\ \E b \in 1..Len(home.allBrands) :
           /\ BrandMatches(home.allBrands[b], home.searchQuery)
           /\ Len(home.allBrands[b].models) > 0
    /\ ModelsShown
    /\ home.filteredBrands = <<>>

-----------------------------------------------------------------------------
(* Properties of parseBrandName.                                           *)

\* s without the p it ends with
WithoutTrailing(s, p) == SubSeq(s, 1, Len(s) - Len(p))

\* C24: the slug of a listed document is its filename with the trailing
\* ".md" removed and nothing else changed, so that slug + ".md" is the
\* filename again.
C24_SlugIsNameWithoutExtension ==
    naming.st = "done" =>
        /\ naming.slug = WithoutTrailing(naming.filename, MD_EXT)
        /\ naming.slug \o MD_EXT = naming.filename

\* The filename without its extension
BaseOf(filename) == WithoutTrailing(filename, MD_EXT)

\* The recognized suffixes with their qualifiers, in the order of the claim
Recognized ==
    <<[suffix |-> SUFFIX_GLOBAL_EN, qualifier |-> <<" ","(","G","l","o","b","a","l",")">>],
      [suffix |-> SUFFIX_CN, qualifier |-> <<" ","(","C","h","i","n","a",")">>],
      [suffix |-> SUFFIX_EN, qualifier |-> <<" ","(","E","n","g","l","i","s","h",")">>],
      [suffix |-> SUFFIX_ALL, qualifier |-> <<>>]>>

\* C25: when the base of the filename ends with a recognized suffix, the
\* display name is the capitalized base without that trailing suffix,
\* followed by the suffix's qualifier: " (Global)" for _global_en (which
\* goes before _en), " (China)" for _cn, " (English)" for _en, nothing for
\* _all; without a recognized suffix the name is the capitalized base;
\* "brand_global_en.md" gives "Brand (Global)" and slug "brand_global_en".
C25_SuffixGivesQualifier ==
    naming.st = "done" =>
        LET base == BaseOf(naming.filename)
            ends == {r \in 1..Len(Recognized) : EndsWith(base, Recognized[r].suffix)}
        IN  /\ ends # {} =>
                   LET first == Recognized[CHOOSE r \in ends : \A q \in ends : r <= q]
                   IN  naming.name =
                           capitalizeWords(WithoutTrailing(base, first.suffix))
                               \o first.qualifier
            /\ ends = {} => naming.name = capitalizeWords(base)
            /\ naming.filename = <<"b","r","a","n","d","_","g","l","o","b","a","l","_","e","n",".","m","d">> =>
                   /\ naming.name = <<"B","r","a","n","d"," ","(","G","l","o","b","a","l",")">>
                   /\ naming.slug = <<"b","r","a","n","d","_","g","l","o","b","a","l","_","e","n">>

\* The base with every separator replaced by one space, every character
\* that starts the base or follows a separator upper-cased, and every
\* other character lower-cased
WordsCapitalized(base) ==
    [i \in 1..Len(base) |->
        IF IsSeparator(base[i]) THEN " "
        ELSE IF i = 1 \/ IsSeparator(base[i - 1]) THEN ToUpperCase(<<base[i]>>)[1]
        ELSE ToLowerCase(<<base[i]>>)[1]]

\* C26: the display name before the qualifier consists of the tokens of
\* the base (what lies between its separators "-", "_" and white space, an
\* empty token between two consecutive separators and before a leading or
\* after a trailing one), each with its first character upper-cased and the
\* rest lower-cased, with exactly one space between consecutive tokens: one
\* space in the place of every separator.
C26_NameIsCapitalizedTokens ==
    naming.st = "done" =>
        LET cleanName == CleanNameOf(naming.filename)
        IN  naming.name =
                WordsCapitalized(BaseNameOf(cleanName)) \o QualifierOf(SuffixOf(cleanName))

\* The name of "my-BRAND two.md", and a name made of a base with two
\* consecutive separators
C26_Witness ==
    /\ naming.st = "done"
    /\ \/ naming.filename = <<"m","y","-","B","R","A","N","D"," ","t","w","o",".","m","d">> /\ naming.name = <<"M","y"," ","B","r","a","n","d"," ","T","w","o">>
       \/ naming.filename = <<"a","_","-","B",".","m","d">> /\ naming.name = <<"A"," "," ","B">>

-----------------------------------------------------------------------------
(* Properties of the brand page.                                           *)

\* C27: when the listing holds no document of the requested slug, and the
\* brand was not served from the cache, the page eventually leaves its
\* loading state and shows the error 'Brand "<slug>" not found'.
C27_NotFoundIsShown ==
    (brandPage.listed = "no" /\ ~brandPage.isFromCache)
        ~> (~brandPage.loading /\ brandPage.error = BrandNotFound(brandPage.brandSlug))

\* C28: when the request for the directory listing fails, the home page
\* ends with loading off and an error message that names the cause: the
\* token message when the proxy has no token, the rate-limit message when
\* GitHub answered 403, the repository message when it answered 404, and
\* "Failed to load data: ..." for every other failure.
C28_ErrorNamesTheCause ==
    home.event = "failed" =>
        /\ ~home.loading
        /\ home.error # <<>>
        /\ home.error =
               IF home.upstream.kind = "no_token" THEN MSG_TOKEN
               ELSE IF home.upstream.kind = "status" /\ home.upstream.status = <<"4","0","3">>
               THEN MSG_RATE_LIMIT
               ELSE IF home.upstream.kind = "status" /\ home.upstream.status = <<"4","0","4">>
               THEN MSG_REPOSITORY
               ELSE MSG_FAILED \o FetchErrorMessage(ProxyResponse(home.upstream))

-----------------------------------------------------------------------------
\* C32: during the background load of the home page modelsLoadedCount never
\* exceeds totalBrands, it changes only by going up by one when the request
\* for one brand's document settles or by starting again at 0 with a new
\* listing or a new mount, and when isModelsLoading becomes false it equals
\* totalBrands.
C32_CountFollowsTheBrands ==
    /\ [](home.modelsLoadedCount <= home.totalBrands)
    /\ [][home'.modelsLoadedCount # home.modelsLoadedCount
            => \/ /\ home'.modelsLoadedCount = home.modelsLoadedCount + 1
                  /\ home'.event \in {"models", "models_failed"}
               \/ /\ home'.modelsLoadedCount = 0
                  /\ home'.event \in {"files", "remount"}]_vars
    /\ [][(home.isModelsLoading /\ ~home'.isModelsLoading /\ home'.event = "cached")
            => home'.modelsLoadedCount = home'.totalBrands]_vars

-----------------------------------------------------------------------------
\* The value a get of key k returns in the state a step leads to
StoredAfter(k) == GetArray(cache', store', k, now').data

\* The entry of stored that belongs to filename
EntryOf(stored, filename) ==
    {b \in 1..Len(stored) : stored[b].filename = filename}

\* C33: when the background load of a run ends, the value stored under
\* all_models_global_data has exactly one entry per file of the run's listing,
\* ordered by brand name; the entry of a brand whose document arrived carries
\* the records parsed from it, and the entry of a brand whose request failed
\* carries no models; the step at which a document arrives stores the records
\* parsed from it under brand_<slug>; a request that fails leaves the other
\* brands of the run awaited as they were.
C33_GlobalDataIsTheListingWithModels ==
    /\ [][home'.event = "cached"
            => LET run == home.runs[home'.run]
                   stored == StoredAfter(AllModelsGlobalData)
               IN  /\ Len(stored) = Len(run.files)
                   /\ \A f \in 1..Len(run.files) :
                         Cardinality(EntryOf(stored, run.files[f])) = 1
                   /\ \A i, j \in 1..Len(stored) :
                         i < j => ~LocaleLess(stored[j].name, stored[i].name)
                   /\ \A b \in 1..Len(stored) :
                         /\ stored[b].name = parseBrandName(stored[b].filename).name
                         /\ stored[b].slug = parseBrandName(stored[b].filename).slug
                         /\ IF stored[b].slug \in run.failed
                            THEN stored[b].models = <<>>
                            ELSE stored[b].models =
                                     parseMarkdownContent(DocumentOf(stored[b].filename))]_vars
    /\ [][home'.event = "models"
            => \E b \in 1..Len(home.runs[home'.run].brandMetadata) :
                  LET brand == home.runs[home'.run].brandMetadata[b]
                  IN  /\ home'.runs[home'.run].awaited =
                             home.runs[home'.run].awaited \ {brand.slug}
                      /\ brand.slug \in home.runs[home'.run].awaited
                      /\ StoredAfter(BrandCacheKey(brand.slug)) =
                             parseMarkdownContent(DocumentOf(brand.filename))]_vars
    /\ [][home'.event = "models_failed"
            => /\ home'.runs[home'.run].pc = "models"
               /\ \E slug \in Slugs :
                     /\ home'.runs[home'.run].failed = home.runs[home'.run].failed \cup {slug}
                     /\ home'.runs[home'.run].awaited = home.runs[home'.run].awaited \ {slug}
               /\ home'.error = home.error]_vars

\* A load ended with two brands, the document of one fetched after the
\* request of the other, which comes first in the listing, had failed
C33_Witness ==
    /\ home.event = "cached"
    /\ CacheHas(cache, AllModelsGlobalData)
    /\ LET stored == GetArray(cache, store, AllModelsGlobalData, now).data
       IN  /\ Len(stored) = 2
           /\ stored[1].models = <<>>
           /\ stored[2].models # <<>>

-----------------------------------------------------------------------------
\* C40: a step of the background load that is taken while the query is not
\* empty (a brand's models arrive, a request fails, the load ends) leaves
\* searchResults, filteredBrands, searchMode and the query as they are, also
\* when it changes allBrands; and whenever the query is empty filteredBrands
\* is allBrands.
C40_SearchOnlyOnSubmit ==
    /\ [][(home.searchQuery # <<>> /\ home'.event \in {"models", "models_failed", "cached"})
            => /\ home'.searchResults = home.searchResults
               /\ home'.filteredBrands = home.filteredBrands
               /\ home'.searchMode = home.searchMode
               /\ home'.searchQuery = home.searchQuery]_vars
    /\ [](Trim(home.searchQuery) = <<>> => home.filteredBrands = home.allBrands)

\* A brand's models arrived while the query "pad" was shown with the brand
\* it had matched: a submission now would show the model, the page does not
C40_Witness ==
    /\ home.event = "models"
    /\ home.searchQuery # <<>>
    /\ home.searchMode = "brands"
    /\ SearchOutcome(home.allBrands, home.searchQuery).searchMode = "models"

-----------------------------------------------------------------------------
\* The models the brand page displays: none in the loading view and in the
\* error view, else filteredModels
BrandModelsDisplayed ==
    IF brandPage.loading \/ brandPage.error # <<>> THEN <<>>
    ELSE <<brandPage.filteredModels>>

\* The value a get of the page's key brand_<slug> returns
BrandCached(c, s) == GetArray(c, s, BrandCacheKey(brandPage.brandSlug), now).data

\* C34: a load of the brand page whose get of brand_<slug> returned a value
\* requests no document and ends displaying exactly that value; a load whose
\* get returned none ends, once the document of the matching file has
\* arrived, with the records parsed from it stored under brand_<slug> and
\* displayed.
C34_PageDisplaysTheCachedModels ==
    /\ [](brandPage.isFromCache
            => /\ brandPage.pc # "content"
               /\ brandPage.matchingFile = <<>>
               /\ brandPage.pc = "done"
                     => BrandModelsDisplayed = <<BrandCached(cache, store)>>)
    /\ [][(brandPage'.event = "content" /\ brandPage'.error = <<>>)
            => /\ ~brandPage.isFromCache
               /\ BrandCached(cache', store') =
                      parseMarkdownContent(DocumentOf(brandPage.matchingFile))
               /\ brandPage'.loading = FALSE
               /\ brandPage'.filteredModels = BrandCached(cache', store')]_vars

====
